---- MODULE Spec2Model ----
(***************************************************************************)
(* Block gossip acceptor of the blocks accumulator                         *)
(* (node/src/components/blocks_accumulator/block_acceptor.rs).             *)
(*                                                                         *)
(* The model follows one acceptor: it does not exist until one of the two  *)
(* constructors builds it from the first gossip item, and afterwards       *)
(* register_signature, register_block and can_execute are called on it in  *)
(* any order and with any arguments.                                       *)
(***************************************************************************)
EXTENDS Integers, FiniteSets, Sequences, TLC

\* ------------------------------------------------------------------------
\* Bounds of the model
\* ------------------------------------------------------------------------
MaxEra == 2
MaxReady == 2

Eras == 1..MaxEra
\* Two block hashes, so that a block can differ from the one a signature names.
Hashes == {1, 2}
\* Two signature bodies, so that one key can sign the same block differently.
Bodies == {1, 2}
PublicKeys == {"A", "B", "C"}
\* The validator that signs the same block with both signature bodies.
ResigningKey == "A"

\* Option<T> is a sequence of length 0 (None) or 1 (Some).
None == <<>>
Some(x) == <<x>>
is_some(o) == Len(o) = 1
is_none(o) == Len(o) = 0
unwrap(o) == o[1]

\* ------------------------------------------------------------------------
\* Types used by the acceptor
\* ------------------------------------------------------------------------
SignedHash == CHOOSE h \in Hashes : TRUE

\* is_verified() is carried as the flag verified; one signature body stands
\* for all bodies that fail verification, and one validator for all that sign
\* twice.  The signatures of the model all sign the block hash SignedHash;
\* blocks of every hash are gossiped.
FinalitySignature ==
    {sig \in [block_hash : {SignedHash}, era_id : Eras,
              public_key : PublicKeys, signature : Bodies,
              verified : BOOLEAN] :
        sig.signature = 1 \/ (sig.verified /\ sig.public_key = ResigningKey)}

\* block.hash() is stored with the block; validate() checks that the hash and
\* the header agree, which the model carries as the flag valid.
\* One block stands for all blocks that fail validation.
BlockAdded ==
    {b \in [hash : Hashes, era_id : Eras, valid : BOOLEAN] :
        b.valid \/ (b.hash = SignedHash /\ b.era_id = 1)}

\* Validator weights of the eras of the model.  Era 1 has validators
\* A:50, B:40, C:30; every other era has A:8, B:2 and does not know C.
WeightTable(e) ==
    IF e = 1 THEN [k \in {"A", "B", "C"} |->
                      IF k = "A" THEN 50 ELSE IF k = "B" THEN 40 ELSE 30]
             ELSE [k \in {"A", "B"} |-> IF k = "A" THEN 8 ELSE 2]

EraValidatorWeights == {[era_id |-> e, validator_weights |-> WeightTable(e)] : e \in Eras}

OptionWeights == {None} \cup {Some(w) : w \in EraValidatorWeights}

RECURSIVE SumWeights(_, _)
SumWeights(table, keys) ==
    IF keys = {} THEN 0
    ELSE LET k == CHOOSE x \in keys : TRUE
         IN (IF k \in DOMAIN table THEN table[k] ELSE 0)
            + SumWeights(table, keys \ {k})

CeilDiv(n, d) == (n + d - 1) \div d

\* EraValidatorWeights::has_sufficient_weight
has_sufficient_weight(w, keys) ==
    LET total == SumWeights(w.validator_weights, DOMAIN w.validator_weights)
        sum == SumWeights(w.validator_weights, keys)
    IN IF sum >= CeilDiv(2 * total, 3) + 1 THEN "Sufficient"
       ELSE IF sum >= CeilDiv(total, 3) + 1 THEN "Weak"
       ELSE "Insufficient"

\* Latch<bool>::set: returns whether the value changed.
latch_set(latch, value) == [latch |-> value, updated |-> latch # value]

\* Results
Ok(b) == [ok |-> TRUE, val |-> b, err |-> "", correct_era |-> 0]
Err(e) == [ok |-> FALSE, val |-> FALSE, err |-> e, correct_era |-> 0]
ErrWrongEra(era) ==
    [ok |-> FALSE, val |-> FALSE, err |-> "FinalitySignatureWithWrongEra",
     correct_era |-> era]

\* ------------------------------------------------------------------------
\* BlockGossipAcceptor
\* ------------------------------------------------------------------------
\* Variant that keeps the entry already stored under the key.
insert_keep_first(map, key, value) ==
    [k \in DOMAIN map \cup {key} |-> IF k \in DOMAIN map THEN map[k] ELSE value]

\* BTreeMap::insert: the value replaces the one stored under the key, if any.
insert(map, key, value) ==
    [k \in DOMAIN map \cup {key} |-> IF k = key THEN value ELSE map[k]]

\* signatures.retain(|_, sig| sig.era_id == era)
retain(map, era) ==
    [k \in {x \in DOMAIN map : map[x].era_id = era} |-> map[k]]

EmptyMap == [k \in {} |-> 0]

\* new_from_block_added: result and the acceptor built.
new_from_block_added(block_added) ==
    IF ~block_added.valid
    THEN [ret |-> Err("InvalidBlockAdded"), self |-> None]
    ELSE [ret |-> Ok(TRUE),
          self |-> Some([block_hash |-> block_added.hash,
                         era_id |-> block_added.era_id,
                         block_added |-> Some(block_added),
                         signatures |-> EmptyMap,
                         can_execute |-> FALSE])]

new_from_finality_signature(finality_signature, era_validator_weights) ==
    IF ~finality_signature.verified
    THEN [ret |-> Err("InvalidFinalitySignature"), self |-> None]
    ELSE IF /\ is_some(era_validator_weights)
            /\ unwrap(era_validator_weights).era_id # finality_signature.era_id
    THEN [ret |-> Err("WrongEraWeights"), self |-> None]
    ELSE [ret |-> Ok(TRUE),
          self |-> Some([block_hash |-> finality_signature.block_hash,
                         era_id |-> finality_signature.era_id,
                         block_added |-> None,
                         signatures |->
                             insert(EmptyMap, finality_signature.public_key,
                                    finality_signature),
                         can_execute |-> FALSE])]

\* Variant that recomputes the flag on every call instead of latching it.
can_execute_recomputed(self, era_validator_weights) ==
    LET b == /\ is_some(self.block_added)
             /\ is_some(era_validator_weights)
             /\ has_sufficient_weight(unwrap(era_validator_weights),
                                      DOMAIN self.signatures) = "Sufficient"
    IN [ret |-> b, self |-> [self EXCEPT !.can_execute = b],
        assert_ok |-> TRUE]

\* Variant that accepts weak finality (anything but Insufficient).
can_execute_weak(self, era_validator_weights) ==
    IF self.can_execute
    THEN [ret |-> TRUE, self |-> self, assert_ok |-> TRUE]
    ELSE IF is_none(self.block_added)
    THEN [ret |-> FALSE, self |-> self, assert_ok |-> TRUE]
    ELSE IF is_none(era_validator_weights)
    THEN [ret |-> FALSE, self |-> self, assert_ok |-> TRUE]
    ELSE IF has_sufficient_weight(unwrap(era_validator_weights),
                                  DOMAIN self.signatures) # "Insufficient"
    THEN [ret |-> TRUE, self |-> [self EXCEPT !.can_execute = TRUE],
          assert_ok |-> TRUE]
    ELSE [ret |-> FALSE, self |-> self, assert_ok |-> TRUE]

\* Variant without the early return for a missing block.
can_execute_no_block_check(self, era_validator_weights) ==
    IF self.can_execute
    THEN [ret |-> TRUE, self |-> self, assert_ok |-> TRUE]
    ELSE IF is_none(era_validator_weights)
    THEN [ret |-> FALSE, self |-> self, assert_ok |-> TRUE]
    ELSE IF has_sufficient_weight(unwrap(era_validator_weights),
                                  DOMAIN self.signatures) = "Sufficient"
    THEN [ret |-> TRUE, self |-> [self EXCEPT !.can_execute = TRUE],
          assert_ok |-> TRUE]
    ELSE [ret |-> FALSE, self |-> self, assert_ok |-> TRUE]

\* Variant without the early return for a latch already set.
can_execute_set_again(self, era_validator_weights) ==
    IF is_none(self.block_added)
    THEN [ret |-> self.can_execute, self |-> self, assert_ok |-> TRUE]
    ELSE IF is_none(era_validator_weights)
    THEN [ret |-> self.can_execute, self |-> self, assert_ok |-> TRUE]
    ELSE IF has_sufficient_weight(unwrap(era_validator_weights),
                                  DOMAIN self.signatures) = "Sufficient"
    THEN LET s == latch_set(self.can_execute, TRUE)
         IN [ret |-> s.latch,
             self |-> [self EXCEPT !.can_execute = s.latch],
             assert_ok |-> s.updated]
    ELSE [ret |-> self.can_execute, self |-> self, assert_ok |-> TRUE]

\* can_execute(&mut self, weights): the value returned, the acceptor after the
\* call, and whether the debug assertion "should only ever set once" held.
can_execute(self, era_validator_weights) ==
    IF self.can_execute
    THEN [ret |-> TRUE, self |-> self, assert_ok |-> TRUE]
    ELSE IF is_none(self.block_added)
    THEN [ret |-> FALSE, self |-> self, assert_ok |-> TRUE]
    ELSE IF is_none(era_validator_weights)
    THEN [ret |-> FALSE, self |-> self, assert_ok |-> TRUE]
    ELSE IF has_sufficient_weight(unwrap(era_validator_weights),
                                  DOMAIN self.signatures) = "Sufficient"
    THEN LET s == latch_set(self.can_execute, TRUE)
         IN [ret |-> s.latch,
             self |-> [self EXCEPT !.can_execute = s.latch],
             assert_ok |-> s.updated]
    ELSE [ret |-> self.can_execute, self |-> self, assert_ok |-> TRUE]

\* Variant that returns the level can_execute instead of the edge
\* can_execute && !could_execute.
register_signature_level(self, finality_signature, era_validator_weights) ==
    IF /\ is_some(self.block_added)
       /\ unwrap(self.block_added).era_id # finality_signature.era_id
    THEN [ret |-> ErrWrongEra(unwrap(self.block_added).era_id),
          self |-> self, evals |-> <<>>, assert_ok |-> TRUE]
    ELSE LET c1 == can_execute(self, era_validator_weights)
             s2 == [c1.self EXCEPT !.signatures =
                        insert(@, finality_signature.public_key,
                               finality_signature)]
             c2 == can_execute(s2, era_validator_weights)
         IN [ret |-> Ok(c2.ret), self |-> c2.self,
             evals |-> <<c1.ret, c2.ret>>,
             assert_ok |-> c1.assert_ok /\ c2.assert_ok]

\* Variant without the comparison of the signature's era with the block's.
register_signature_no_era_check(self, finality_signature, era_validator_weights) ==
    LET c1 == can_execute(self, era_validator_weights)
        s2 == [c1.self EXCEPT !.signatures =
                   insert(@, finality_signature.public_key,
                          finality_signature)]
        c2 == can_execute(s2, era_validator_weights)
    IN [ret |-> Ok(c2.ret /\ ~c1.ret), self |-> c2.self,
        evals |-> <<c1.ret, c2.ret>>,
        assert_ok |-> c1.assert_ok /\ c2.assert_ok]

\* Variant that stores the signature before comparing its era with the block's.
register_signature_insert_first(self, finality_signature, era_validator_weights) ==
    LET s0 == [self EXCEPT !.signatures =
                   insert(@, finality_signature.public_key,
                          finality_signature)]
    IN IF /\ is_some(self.block_added)
          /\ unwrap(self.block_added).era_id # finality_signature.era_id
       THEN [ret |-> ErrWrongEra(unwrap(self.block_added).era_id),
             self |-> s0, evals |-> <<>>, assert_ok |-> TRUE]
       ELSE LET c1 == can_execute(self, era_validator_weights)
                s2 == [c1.self EXCEPT !.signatures = s0.signatures]
                c2 == can_execute(s2, era_validator_weights)
            IN [ret |-> Ok(c2.ret /\ ~c1.ret), self |-> c2.self,
                evals |-> <<c1.ret, c2.ret>>,
                assert_ok |-> c1.assert_ok /\ c2.assert_ok]

register_signature(self, finality_signature, era_validator_weights) ==
    IF /\ is_some(self.block_added)
       /\ unwrap(self.block_added).era_id # finality_signature.era_id
    THEN [ret |-> ErrWrongEra(unwrap(self.block_added).era_id),
          self |-> self, evals |-> <<>>, assert_ok |-> TRUE]
    ELSE LET c1 == can_execute(self, era_validator_weights)
             s2 == [c1.self EXCEPT !.signatures =
                        insert(@, finality_signature.public_key,
                               finality_signature)]
             c2 == can_execute(s2, era_validator_weights)
         IN [ret |-> Ok(c2.ret /\ ~c1.ret), self |-> c2.self,
             evals |-> <<c1.ret, c2.ret>>,
             assert_ok |-> c1.assert_ok /\ c2.assert_ok]

\* Variant that keeps the signatures of other eras.
register_block_no_retain(self, block_added, era_validator_weights) ==
    IF is_some(self.block_added)
    THEN [ret |-> Ok(FALSE), self |-> self, evals |-> <<>>, assert_ok |-> TRUE]
    ELSE IF ~block_added.valid
    THEN [ret |-> Err("InvalidBlockAdded"), self |-> self, evals |-> <<>>,
          assert_ok |-> TRUE]
    ELSE LET c1 == can_execute(self, era_validator_weights)
             s2 == [c1.self EXCEPT !.block_added = Some(block_added)]
             c2 == can_execute(s2, era_validator_weights)
         IN [ret |-> Ok(c2.ret /\ ~c1.ret), self |-> c2.self,
             evals |-> <<c1.ret, c2.ret>>,
             assert_ok |-> c1.assert_ok /\ c2.assert_ok]

\* Variant that validates the incoming block before looking for a stored one.
register_block_validate_first(self, block_added, era_validator_weights) ==
    IF ~block_added.valid
    THEN [ret |-> Err("InvalidBlockAdded"), self |-> self, evals |-> <<>>,
          assert_ok |-> TRUE]
    ELSE IF is_some(self.block_added)
    THEN [ret |-> Ok(FALSE), self |-> self, evals |-> <<>>, assert_ok |-> TRUE]
    ELSE LET s1 == [self EXCEPT !.signatures =
                        retain(@, block_added.era_id)]
             c1 == can_execute(s1, era_validator_weights)
             s2 == [c1.self EXCEPT !.block_added = Some(block_added)]
             c2 == can_execute(s2, era_validator_weights)
         IN [ret |-> Ok(c2.ret /\ ~c1.ret), self |-> c2.self,
             evals |-> <<c1.ret, c2.ret>>,
             assert_ok |-> c1.assert_ok /\ c2.assert_ok]

\* Variant that purges the signatures of other eras before validating the
\* incoming block.
register_block_purge_first(self, block_added, era_validator_weights) ==
    IF is_some(self.block_added)
    THEN [ret |-> Ok(FALSE), self |-> self, evals |-> <<>>, assert_ok |-> TRUE]
    ELSE LET s1 == [self EXCEPT !.signatures =
                        retain(@, block_added.era_id)]
         IN IF ~block_added.valid
            THEN [ret |-> Err("InvalidBlockAdded"), self |-> s1,
                  evals |-> <<>>, assert_ok |-> TRUE]
            ELSE LET c1 == can_execute(s1, era_validator_weights)
                     s2 == [c1.self EXCEPT !.block_added = Some(block_added)]
                     c2 == can_execute(s2, era_validator_weights)
                 IN [ret |-> Ok(c2.ret /\ ~c1.ret), self |-> c2.self,
                     evals |-> <<c1.ret, c2.ret>>,
                     assert_ok |-> c1.assert_ok /\ c2.assert_ok]

register_block(self, block_added, era_validator_weights) ==
    IF is_some(self.block_added)
    THEN [ret |-> Ok(FALSE), self |-> self, evals |-> <<>>, assert_ok |-> TRUE]
    ELSE IF ~block_added.valid
    THEN [ret |-> Err("InvalidBlockAdded"), self |-> self, evals |-> <<>>,
          assert_ok |-> TRUE]
    ELSE LET s1 == [self EXCEPT !.signatures =
                        retain(@, block_added.era_id)]
             c1 == can_execute(s1, era_validator_weights)
             s2 == [c1.self EXCEPT !.block_added = Some(block_added)]
             c2 == can_execute(s2, era_validator_weights)
         IN [ret |-> Ok(c2.ret /\ ~c1.ret), self |-> c2.self,
             evals |-> <<c1.ret, c2.ret>>,
             assert_ok |-> c1.assert_ok /\ c2.assert_ok]

\* ------------------------------------------------------------------------
\* Reactor control loop (node/src/reactor/main_reactor/control.rs)
\* ------------------------------------------------------------------------
\* Bounds of the reactor model: the two catch-up settings of the reactor and
\* the greatest block height.
max_attempts == 1
idle_tolerances == 1
MaxHeight == 1

WAIT_SEC == 5

ReactorState == {"Initialize", "CatchUp", "KeepUp", "Validate"}

\* The subsystems initialized by the crank, in the order of the code.
Components ==
    <<"diagnostics", "upgrade_watcher", "small_network",
      "event_stream_server", "rest_server", "rpc_server">>

\* chainspec.core_config.sync_leap_simultaneous_peer_requests
sync_leap_simultaneous_peer_requests == 3

\* Clock readings: enough of them for a progress timestamp to be within
\* idle_tolerances, and to be older.
Timestamps == 0..(idle_tolerances + 1)

\* Timestamp::saturating_diff
saturating_diff(a, b) == IF a >= b THEN a - b ELSE 0

\* chainspec.protocol_config.activation_point
Genesis(timestamp) == [kind |-> "Genesis", timestamp |-> timestamp, era_id |-> 0]
ActivationEraId(era) == [kind |-> "EraId", timestamp |-> 0, era_id |-> era]
ActivationPoint ==
    {Genesis(0), Genesis(idle_tolerances + 1), ActivationEraId(1)}

\* ActivationPoint::genesis_timestamp
genesis_timestamp(activation_point) ==
    IF activation_point.kind = "Genesis"
    THEN Some(activation_point.timestamp) ELSE None

\* The hash given in the configuration, BlockHash::default() and
\* Digest::default().
TrustedHash == 7
DefaultBlockHash == 0
DefaultDigest == 0

\* Blocks of the linear chain, as far as the crank reads them: the header
\* fields are functions of the height, but for next_block_era_id.
LocalBlock(height, next_era) ==
    [hash |-> 10 + height, height |-> height, era_id |-> height,
     next_block_era_id |-> next_era, timestamp |-> height,
     accumulated_seed |-> 40 + height, state_root_hash |-> 50 + height]
LocalBlocks == {LocalBlock(h, h + d) : h \in 0..MaxHeight, d \in 0..1}

\* storage.read_block(trusted_hash): the height of the block found is all
\* the crank reads.
StorageErr == [ok |-> FALSE, block |-> None]
StorageOk(block) == [ok |-> TRUE, block |-> block]
ReadBlockResult ==
    {StorageErr, StorageOk(None)}
        \cup {StorageOk(Some([height |-> h])) : h \in 0..MaxHeight}

\* blocks_accumulator.sync_instruction(starting_with)
SyncLeap == [kind |-> "Leap", block_hash |-> 0, should_fetch_execution_state |-> FALSE]
BlockSync(block_hash, should_fetch_execution_state) ==
    [kind |-> "BlockSync", block_hash |-> block_hash,
     should_fetch_execution_state |-> should_fetch_execution_state]
BlockExec(block_id) ==
    [kind |-> "BlockExec", block_hash |-> block_id, should_fetch_execution_state |-> FALSE]
SyncCaughtUp == [kind |-> "CaughtUp", block_hash |-> 0, should_fetch_execution_state |-> FALSE]
SyncInstruction ==
    {SyncLeap, BlockSync(20, TRUE), BlockSync(20, FALSE), BlockExec(30),
     SyncCaughtUp}

\* Results of the contract runtime (commit_genesis, commit_upgrade) and of
\* chainspec.ee_upgrade_config: an error, or success with a post-state hash.
StateHashes == {171, 172}
EngineErr == [ok |-> FALSE, post_state_hash |-> 0]
EngineOk(post_state_hash) == [ok |-> TRUE, post_state_hash |-> post_state_hash]
EngineResult == {EngineErr} \cup {EngineOk(h) : h \in StateHashes}

\* small_network.peers_random_vec(rng, count): the sample of peers returned,
\* of at most count peers.
PeerSamples == {<<>>, <<1, 2, 3>>}

\* StartingWith
StartingWithBlock(block) == [kind |-> "Block", block_hash |-> block.hash]
StartingWithHash(hash) == [kind |-> "Hash", block_hash |-> hash]
NoStartingPoint == [kind |-> "", block_hash |-> 0]

\* CatchUpInstruction: the instruction, its message, its wait in seconds and
\* the header carried by CommitUpgrade.
Instruction(kind, msg, wait, header) ==
    [kind |-> kind, msg |-> msg, wait |-> wait, header |-> header]
NoInstruction == Instruction("", "", 0, None)

\* Effects returned by a crank: the event put on the queue, how it is
\* scheduled (immediately, after a timeout, or by the subsystem that is
\* initializing) and what it carries.
Effect(event, via, secs, data) ==
    [event |-> event, via |-> via, secs |-> secs, data |-> data]
ReactorCrank(via, secs) == Effect("ReactorCrank", via, secs, <<>>)
ShutdownEvent(msg) == Effect("Shutdown", "immediately", 0, <<msg>>)

\* Calls the crank makes on other components.
CallOn(component, method, args) ==
    [component |-> component, method |-> method, args |-> args]
register_block_by_hash(block_hash, should_fetch_execution_state) ==
    CallOn("block_synchronizer", "register_block_by_hash",
           <<block_hash, should_fetch_execution_state,
             sync_leap_simultaneous_peer_requests>>)

\* What a crank reads from its surroundings: whether each subsystem still has
\* initialization effects, the clock at its two readings, the synchronizer's
\* last progress, the local tip, the block stored under the trusted hash, the
\* accumulator's instruction, the validator status, the results of the
\* execution engine and the peer sample of the network.
NoReadings ==
    [pending |-> {}, now_idle |-> 0, now_genesis |-> 0,
     last_progress |-> None, highest_block |-> None,
     read_block |-> StorageOk(None), sync_instruction |-> SyncCaughtUp,
     is_active_validator |-> FALSE, upgrade_config_ok |-> TRUE,
     engine |-> EngineErr, peers_to_ask |-> <<>>]

\* The readings with all but the consulted ones left out.
Consulted(env, fields) ==
    [f \in DOMAIN NoReadings |-> IF f \in fields THEN env[f] ELSE NoReadings[f]]

\* utils::initialize_component: Some(effects) while the subsystem still has
\* initialization effects to run.
initialize_component(env, component_name) ==
    IF component_name \in env.pending
    THEN Some(<<Effect("Initialize", "initialize_component", 0,
                       <<component_name>>)>>)
    ELSE None

\* The outcome of a step of the crank: the reactor afterwards, the
\* instruction followed, the effects returned, the calls made on other
\* components, the starting point chosen, the readings consulted, and whether
\* the crank panicked.
Outcome(self, instruction, effects, calls, starting_with, fields, panicked) ==
    [self |-> self, instruction |-> instruction, effects |-> effects,
     calls |-> calls, starting_with |-> starting_with, fields |-> fields,
     panicked |-> panicked]

\* The first subsystem, in the order of Components, that still has
\* initialization effects; 0 if there is none.
RECURSIVE FirstPending(_, _)
FirstPending(env, i) ==
    IF i > Len(Components) THEN 0
    ELSE IF is_some(initialize_component(env, Components[i])) THEN i
    ELSE FirstPending(env, i + 1)

\* Variant that stamps the genesis block with the default timestamp.
commit_genesis_default_timestamp(self, env) ==
    LET commit == CallOn("contract_runtime", "commit_genesis", <<>>)
    IN IF ~env.engine.ok
       THEN [ok |-> FALSE, msg |-> "failed to commit genesis",
             effects |-> <<>>, calls |-> <<commit>>]
       ELSE IF is_none(genesis_timestamp(self.activation_point))
       THEN [ok |-> FALSE, msg |-> "must have genesis timestamp",
             effects |-> <<>>, calls |-> <<commit>>]
       ELSE LET next_block_height == 0
                initial_pre_state ==
                    <<next_block_height, env.engine.post_state_hash,
                      DefaultBlockHash, DefaultDigest>>
                finalized_block ==
                    [payload |-> "default", era_report |-> Some("default"),
                     timestamp |-> 0,
                     era_id |-> 0, height |-> next_block_height,
                     proposer |-> "System"]
            IN [ok |-> TRUE, msg |-> "",
                effects |->
                    <<Effect("enqueue_block_for_execution", "immediately", 0,
                             <<finalized_block, <<>>, <<>> >>)>>,
                calls |->
                    <<commit,
                      CallOn("contract_runtime", "set_initial_state",
                             initial_pre_state)>>]

\* commit_genesis: Ok(effects) or Err(msg), and the calls made on the
\* contract runtime.
commit_genesis(self, env) ==
    LET commit == CallOn("contract_runtime", "commit_genesis", <<>>)
    IN IF ~env.engine.ok
       THEN [ok |-> FALSE, msg |-> "failed to commit genesis",
             effects |-> <<>>, calls |-> <<commit>>]
       ELSE IF is_none(genesis_timestamp(self.activation_point))
       THEN [ok |-> FALSE, msg |-> "must have genesis timestamp",
             effects |-> <<>>, calls |-> <<commit>>]
       ELSE LET next_block_height == 0
                initial_pre_state ==
                    <<next_block_height, env.engine.post_state_hash,
                      DefaultBlockHash, DefaultDigest>>
                finalized_block ==
                    [payload |-> "default", era_report |-> Some("default"),
                     timestamp |-> unwrap(genesis_timestamp(self.activation_point)),
                     era_id |-> 0, height |-> next_block_height,
                     proposer |-> "System"]
            IN [ok |-> TRUE, msg |-> "",
                effects |->
                    <<Effect("enqueue_block_for_execution", "immediately", 0,
                             <<finalized_block, <<>>, <<>> >>)>>,
                calls |->
                    <<commit,
                      CallOn("contract_runtime", "set_initial_state",
                             initial_pre_state)>>]

\* Variant that finalizes the upgrade block at the height of the previous one.
commit_upgrade_same_height(self, env, previous_block_header) ==
    LET config == CallOn("chainspec", "ee_upgrade_config",
                         <<previous_block_header.state_root_hash,
                           previous_block_header.era_id>>)
        commit == CallOn("contract_runtime", "commit_upgrade", <<>>)
    IN IF ~env.upgrade_config_ok
       THEN [ok |-> FALSE, msg |-> "upgrade config error",
             effects |-> <<>>, calls |-> <<config>>]
       ELSE IF ~env.engine.ok
       THEN [ok |-> FALSE, msg |-> "failed to upgrade protocol",
             effects |-> <<>>, calls |-> <<config, commit>>]
       ELSE LET next_block_height == previous_block_header.height + 1
                initial_pre_state ==
                    <<next_block_height, env.engine.post_state_hash,
                      previous_block_header.hash,
                      previous_block_header.accumulated_seed>>
                finalized_block ==
                    [payload |-> "default", era_report |-> Some("default"),
                     timestamp |-> previous_block_header.timestamp,
                     era_id |-> previous_block_header.next_block_era_id,
                     height |-> previous_block_header.height,
                     proposer |-> "System"]
            IN [ok |-> TRUE, msg |-> "",
                effects |->
                    <<Effect("enqueue_block_for_execution", "immediately", 0,
                             <<finalized_block, <<>>, <<>> >>)>>,
                calls |->
                    <<config, commit,
                      CallOn("contract_runtime", "set_initial_state",
                             initial_pre_state)>>]

\* commit_upgrade
commit_upgrade(self, env, previous_block_header) ==
    LET config == CallOn("chainspec", "ee_upgrade_config",
                         <<previous_block_header.state_root_hash,
                           previous_block_header.era_id>>)
        commit == CallOn("contract_runtime", "commit_upgrade", <<>>)
    IN IF ~env.upgrade_config_ok
       THEN [ok |-> FALSE, msg |-> "upgrade config error",
             effects |-> <<>>, calls |-> <<config>>]
       ELSE IF ~env.engine.ok
       THEN [ok |-> FALSE, msg |-> "failed to upgrade protocol",
             effects |-> <<>>, calls |-> <<config, commit>>]
       ELSE LET next_block_height == previous_block_header.height + 1
                initial_pre_state ==
                    <<next_block_height, env.engine.post_state_hash,
                      previous_block_header.hash,
                      previous_block_header.accumulated_seed>>
                finalized_block ==
                    [payload |-> "default", era_report |-> Some("default"),
                     timestamp |-> previous_block_header.timestamp,
                     era_id |-> previous_block_header.next_block_era_id,
                     height |-> next_block_height,
                     proposer |-> "System"]
            IN [ok |-> TRUE, msg |-> "",
                effects |->
                    <<Effect("enqueue_block_for_execution", "immediately", 0,
                             <<finalized_block, <<>>, <<>> >>)>>,
                calls |->
                    <<config, commit,
                      CallOn("contract_runtime", "set_initial_state",
                             initial_pre_state)>>]

\* Variant that takes the genesis timestamp itself for post-genesis.
starting_point_strict(self, env) ==
    IF is_none(self.trusted_hash)
    THEN IF is_some(env.highest_block)
         THEN [starting_with |-> StartingWithBlock(unwrap(env.highest_block)),
               instruction |-> NoInstruction,
               fields |-> {"highest_block"}]
         ELSE IF /\ self.activation_point.kind = "Genesis"
                 /\ env.now_genesis < self.activation_point.timestamp
         THEN [starting_with |-> NoStartingPoint,
               instruction |-> Instruction("CommitGenesis", "", 0, None),
               fields |-> {"highest_block", "now_genesis"}]
         ELSE [starting_with |-> NoStartingPoint,
               instruction |->
                   Instruction("Shutdown",
                       "post-genesis; cannot proceed without trusted hash provided",
                       0, None),
               fields |-> IF self.activation_point.kind = "Genesis"
                          THEN {"highest_block", "now_genesis"}
                          ELSE {"highest_block"}]
    ELSE LET trusted_hash == unwrap(self.trusted_hash)
         IN IF ~env.read_block.ok
            THEN [starting_with |-> NoStartingPoint,
                  instruction |->
                      Instruction("Shutdown",
                          "fatal block store error when attempting to read block under trusted hash",
                          0, None),
                  fields |-> {"read_block"}]
            ELSE IF is_none(env.read_block.block)
            THEN [starting_with |-> StartingWithHash(trusted_hash),
                  instruction |-> NoInstruction,
                  fields |-> {"read_block"}]
            ELSE IF is_none(env.highest_block)
            THEN [starting_with |-> StartingWithHash(trusted_hash),
                  instruction |-> NoInstruction,
                  fields |-> {"read_block", "highest_block"}]
            ELSE IF unwrap(env.read_block.block).height
                        > unwrap(env.highest_block).height
            THEN [starting_with |-> StartingWithHash(trusted_hash),
                  instruction |-> NoInstruction,
                  fields |-> {"read_block", "highest_block"}]
            ELSE [starting_with |-> StartingWithBlock(unwrap(env.highest_block)),
                  instruction |-> NoInstruction,
                  fields |-> {"read_block", "highest_block"}]

\* Variant that prefers the trusted hash when the heights tie.
starting_point_ties_trusted(self, env) ==
    IF is_none(self.trusted_hash)
    THEN IF is_some(env.highest_block)
         THEN [starting_with |-> StartingWithBlock(unwrap(env.highest_block)),
               instruction |-> NoInstruction,
               fields |-> {"highest_block"}]
         ELSE IF /\ self.activation_point.kind = "Genesis"
                 /\ env.now_genesis <= self.activation_point.timestamp
         THEN [starting_with |-> NoStartingPoint,
               instruction |-> Instruction("CommitGenesis", "", 0, None),
               fields |-> {"highest_block", "now_genesis"}]
         ELSE [starting_with |-> NoStartingPoint,
               instruction |->
                   Instruction("Shutdown",
                       "post-genesis; cannot proceed without trusted hash provided",
                       0, None),
               fields |-> IF self.activation_point.kind = "Genesis"
                          THEN {"highest_block", "now_genesis"}
                          ELSE {"highest_block"}]
    ELSE LET trusted_hash == unwrap(self.trusted_hash)
         IN IF ~env.read_block.ok
            THEN [starting_with |-> NoStartingPoint,
                  instruction |->
                      Instruction("Shutdown",
                          "fatal block store error when attempting to read block under trusted hash",
                          0, None),
                  fields |-> {"read_block"}]
            ELSE IF is_none(env.read_block.block)
            THEN [starting_with |-> StartingWithHash(trusted_hash),
                  instruction |-> NoInstruction,
                  fields |-> {"read_block"}]
            ELSE IF is_none(env.highest_block)
            THEN [starting_with |-> StartingWithHash(trusted_hash),
                  instruction |-> NoInstruction,
                  fields |-> {"read_block", "highest_block"}]
            ELSE IF unwrap(env.read_block.block).height
                        >= unwrap(env.highest_block).height
            THEN [starting_with |-> StartingWithHash(trusted_hash),
                  instruction |-> NoInstruction,
                  fields |-> {"read_block", "highest_block"}]
            ELSE [starting_with |-> StartingWithBlock(unwrap(env.highest_block)),
                  instruction |-> NoInstruction,
                  fields |-> {"read_block", "highest_block"}]

\* The starting point of catch_up_instructions: the block or hash to leap
\* from, or the instruction returned in its place.
starting_point(self, env) ==
    IF is_none(self.trusted_hash)
    THEN IF is_some(env.highest_block)
         THEN [starting_with |-> StartingWithBlock(unwrap(env.highest_block)),
               instruction |-> NoInstruction,
               fields |-> {"highest_block"}]
         ELSE IF /\ self.activation_point.kind = "Genesis"
                 /\ env.now_genesis <= self.activation_point.timestamp
         THEN [starting_with |-> NoStartingPoint,
               instruction |-> Instruction("CommitGenesis", "", 0, None),
               fields |-> {"highest_block", "now_genesis"}]
         ELSE [starting_with |-> NoStartingPoint,
               instruction |->
                   Instruction("Shutdown",
                       "post-genesis; cannot proceed without trusted hash provided",
                       0, None),
               fields |-> IF self.activation_point.kind = "Genesis"
                          THEN {"highest_block", "now_genesis"}
                          ELSE {"highest_block"}]
    ELSE LET trusted_hash == unwrap(self.trusted_hash)
         IN IF ~env.read_block.ok
            THEN [starting_with |-> NoStartingPoint,
                  instruction |->
                      Instruction("Shutdown",
                          "fatal block store error when attempting to read block under trusted hash",
                          0, None),
                  fields |-> {"read_block"}]
            ELSE IF is_none(env.read_block.block)
            THEN [starting_with |-> StartingWithHash(trusted_hash),
                  instruction |-> NoInstruction,
                  fields |-> {"read_block"}]
            ELSE IF is_none(env.highest_block)
            THEN [starting_with |-> StartingWithHash(trusted_hash),
                  instruction |-> NoInstruction,
                  fields |-> {"read_block", "highest_block"}]
            ELSE IF unwrap(env.read_block.block).height
                        > unwrap(env.highest_block).height
            THEN [starting_with |-> StartingWithHash(trusted_hash),
                  instruction |-> NoInstruction,
                  fields |-> {"read_block", "highest_block"}]
            ELSE [starting_with |-> StartingWithBlock(unwrap(env.highest_block)),
                  instruction |-> NoInstruction,
                  fields |-> {"read_block", "highest_block"}]

\* Variant that takes a node without a local tip for caught up.
follow_sync_instruction_keep_up_without_tip(self, env, start) ==
    LET sync == env.sync_instruction
        asked == start.fields \cup {"sync_instruction"}
    IN IF sync.kind = "Leap"
       THEN Outcome(self, Instruction("Do", "", 0, None),
                    <<Effect("AttemptLeap", "immediately", 0,
                             <<start.starting_with.block_hash,
                               env.peers_to_ask>>)>>,
                    <<CallOn("small_network", "peers_random_vec",
                             <<sync_leap_simultaneous_peer_requests>>)>>,
                    start.starting_with, asked \cup {"peers_to_ask"}, FALSE)
       ELSE IF sync.kind = "BlockSync"
       THEN Outcome(self,
                    Instruction("CheckSoon", "block_synchronizer is initialized",
                                0, None),
                    <<>>,
                    <<register_block_by_hash(sync.block_hash,
                                             sync.should_fetch_execution_state)>>,
                    start.starting_with, asked, FALSE)
       ELSE IF sync.kind = "BlockExec"
       THEN Outcome(self,
                    Instruction("CheckSoon",
                        "block_synchronizer is initialized for potentially executable block",
                        0, None),
                    <<>>,
                    <<register_block_by_hash(sync.block_hash, FALSE)>>,
                    start.starting_with, asked, FALSE)
       ELSE IF is_none(env.highest_block)
       THEN Outcome(self, Instruction("CaughtUp", "", 0, None),
                    <<>>, <<>>, start.starting_with,
                    asked \cup {"highest_block"}, FALSE)
       ELSE IF unwrap(env.highest_block).era_id
                   = unwrap(env.highest_block).next_block_era_id
       THEN Outcome(self,
                    Instruction("CommitUpgrade", "", 0, env.highest_block),
                    <<>>, <<>>, start.starting_with,
                    asked \cup {"highest_block"}, FALSE)
       ELSE Outcome(self, Instruction("CaughtUp", "", 0, None),
                    <<>>, <<>>, start.starting_with,
                    asked \cup {"highest_block"}, FALSE)

\* Variant that leaps from the default hash.
follow_sync_instruction_leap_from_default(self, env, start) ==
    LET sync == env.sync_instruction
        asked == start.fields \cup {"sync_instruction"}
    IN IF sync.kind = "Leap"
       THEN Outcome(self, Instruction("Do", "", 0, None),
                    <<Effect("AttemptLeap", "immediately", 0,
                             <<DefaultBlockHash, env.peers_to_ask>>)>>,
                    <<CallOn("small_network", "peers_random_vec",
                             <<sync_leap_simultaneous_peer_requests>>)>>,
                    start.starting_with, asked \cup {"peers_to_ask"}, FALSE)
       ELSE IF sync.kind = "BlockSync"
       THEN Outcome(self,
                    Instruction("CheckSoon", "block_synchronizer is initialized",
                                0, None),
                    <<>>,
                    <<register_block_by_hash(sync.block_hash,
                                             sync.should_fetch_execution_state)>>,
                    start.starting_with, asked, FALSE)
       ELSE IF sync.kind = "BlockExec"
       THEN Outcome(self,
                    Instruction("CheckSoon",
                        "block_synchronizer is initialized for potentially executable block",
                        0, None),
                    <<>>,
                    <<register_block_by_hash(sync.block_hash, FALSE)>>,
                    start.starting_with, asked, FALSE)
       ELSE IF is_none(env.highest_block)
       THEN Outcome(self,
                    Instruction("Shutdown",
                        "can't be caught up with no block in the block store",
                        0, None),
                    <<>>, <<>>, start.starting_with,
                    asked \cup {"highest_block"}, FALSE)
       ELSE IF unwrap(env.highest_block).era_id
                   = unwrap(env.highest_block).next_block_era_id
       THEN Outcome(self,
                    Instruction("CommitUpgrade", "", 0, env.highest_block),
                    <<>>, <<>>, start.starting_with,
                    asked \cup {"highest_block"}, FALSE)
       ELSE Outcome(self, Instruction("CaughtUp", "", 0, None),
                    <<>>, <<>>, start.starting_with,
                    asked \cup {"highest_block"}, FALSE)

\* catch_up_instructions, from the accumulator's instruction on: start is the
\* starting point chosen.
follow_sync_instruction(self, env, start) ==
    LET sync == env.sync_instruction
        asked == start.fields \cup {"sync_instruction"}
    IN IF sync.kind = "Leap"
       THEN Outcome(self, Instruction("Do", "", 0, None),
                    <<Effect("AttemptLeap", "immediately", 0,
                             <<start.starting_with.block_hash,
                               env.peers_to_ask>>)>>,
                    <<CallOn("small_network", "peers_random_vec",
                             <<sync_leap_simultaneous_peer_requests>>)>>,
                    start.starting_with, asked \cup {"peers_to_ask"}, FALSE)
       ELSE IF sync.kind = "BlockSync"
       THEN Outcome(self,
                    Instruction("CheckSoon", "block_synchronizer is initialized",
                                0, None),
                    <<>>,
                    <<register_block_by_hash(sync.block_hash,
                                             sync.should_fetch_execution_state)>>,
                    start.starting_with, asked, FALSE)
       ELSE IF sync.kind = "BlockExec"
       THEN Outcome(self,
                    Instruction("CheckSoon",
                        "block_synchronizer is initialized for potentially executable block",
                        0, None),
                    <<>>,
                    <<register_block_by_hash(sync.block_hash, FALSE)>>,
                    start.starting_with, asked, FALSE)
       ELSE IF is_none(env.highest_block)
       THEN Outcome(self,
                    Instruction("Shutdown",
                        "can't be caught up with no block in the block store",
                        0, None),
                    <<>>, <<>>, start.starting_with,
                    asked \cup {"highest_block"}, FALSE)
       ELSE IF unwrap(env.highest_block).era_id
                   = unwrap(env.highest_block).next_block_era_id
       THEN Outcome(self,
                    Instruction("CommitUpgrade", "", 0, env.highest_block),
                    <<>>, <<>>, start.starting_with,
                    asked \cup {"highest_block"}, FALSE)
       ELSE Outcome(self, Instruction("CaughtUp", "", 0, None),
                    <<>>, <<>>, start.starting_with,
                    asked \cup {"highest_block"}, FALSE)

\* catch_up_instructions, from the starting point on.
from_starting_point(self, env, start) ==
    IF start.instruction # NoInstruction
    THEN Outcome(self, start.instruction, <<>>, <<>>, start.starting_with,
                 start.fields, FALSE)
    ELSE follow_sync_instruction(self, env, start)

\* The outcome r with the readings of the idleness guard added.
after_idleness_guard(r, fields) == [r EXCEPT !.fields = @ \cup fields]

\* Variant that shuts down one stale crank later.
catch_up_instructions_late_cap(self, env) ==
    IF is_none(env.last_progress)
    THEN after_idleness_guard(
             from_starting_point(self, env, starting_point(self, env)),
             {"last_progress"})
    ELSE IF saturating_diff(env.now_idle, unwrap(env.last_progress))
                <= idle_tolerances
    THEN Outcome([self EXCEPT !.attempts = 0],
                 Instruction("CheckLater",
                             "block_synchronizer is making progress",
                             WAIT_SEC * 2, None),
                 <<>>, <<>>, NoStartingPoint,
                 {"last_progress", "now_idle"}, FALSE)
    ELSE IF self.attempts + 1 > max_attempts + 1
    THEN Outcome([self EXCEPT !.attempts = @ + 1],
                 Instruction("Shutdown",
                             "catch up process exceeds idle tolerances",
                             0, None),
                 <<>>, <<>>, NoStartingPoint,
                 {"last_progress", "now_idle"}, FALSE)
    ELSE after_idleness_guard(
             from_starting_point([self EXCEPT !.attempts = @ + 1], env,
                                 starting_point(self, env)),
             {"last_progress", "now_idle"})

\* Variant that leaves the attempts as they are on fresh progress.
catch_up_instructions_keeps_attempts(self, env) ==
    IF is_none(env.last_progress)
    THEN after_idleness_guard(
             from_starting_point(self, env, starting_point(self, env)),
             {"last_progress"})
    ELSE IF saturating_diff(env.now_idle, unwrap(env.last_progress))
                <= idle_tolerances
    THEN Outcome(self,
                 Instruction("CheckLater",
                             "block_synchronizer is making progress",
                             WAIT_SEC * 2, None),
                 <<>>, <<>>, NoStartingPoint,
                 {"last_progress", "now_idle"}, FALSE)
    ELSE IF self.attempts + 1 > max_attempts
    THEN Outcome([self EXCEPT !.attempts = @ + 1],
                 Instruction("Shutdown",
                             "catch up process exceeds idle tolerances",
                             0, None),
                 <<>>, <<>>, NoStartingPoint,
                 {"last_progress", "now_idle"}, FALSE)
    ELSE after_idleness_guard(
             from_starting_point([self EXCEPT !.attempts = @ + 1], env,
                                 starting_point(self, env)),
             {"last_progress", "now_idle"})

\* MainReactor::catch_up_instructions
catch_up_instructions(self, env) ==
    IF is_none(env.last_progress)
    THEN after_idleness_guard(
             from_starting_point(self, env, starting_point(self, env)),
             {"last_progress"})
    ELSE IF saturating_diff(env.now_idle, unwrap(env.last_progress))
                <= idle_tolerances
    THEN Outcome([self EXCEPT !.attempts = 0],
                 Instruction("CheckLater",
                             "block_synchronizer is making progress",
                             WAIT_SEC * 2, None),
                 <<>>, <<>>, NoStartingPoint,
                 {"last_progress", "now_idle"}, FALSE)
    ELSE IF self.attempts + 1 > max_attempts
    THEN Outcome([self EXCEPT !.attempts = @ + 1],
                 Instruction("Shutdown",
                             "catch up process exceeds idle tolerances",
                             0, None),
                 <<>>, <<>>, NoStartingPoint,
                 {"last_progress", "now_idle"}, FALSE)
    ELSE after_idleness_guard(
             from_starting_point([self EXCEPT !.attempts = @ + 1], env,
                                 starting_point(self, env)),
             {"last_progress", "now_idle"})

\* Variant that tries again after a failed commit.
committed_and_retried(r, c, fields) ==
    [r EXCEPT
        !.effects =
            IF c.ok
            THEN c.effects \o <<ReactorCrank("set_timeout", WAIT_SEC)>>
            ELSE <<ShutdownEvent(c.msg), ReactorCrank("set_timeout", WAIT_SEC)>>,
        !.calls = @ \o c.calls,
        !.fields = @ \cup fields]

\* The effects of a commit c made for the outcome r of catch_up_instructions:
\* its own and a crank after WAIT_SEC, or a shutdown with its message.
committed(r, c, fields) ==
    [r EXCEPT
        !.effects =
            IF c.ok
            THEN c.effects \o <<ReactorCrank("set_timeout", WAIT_SEC)>>
            ELSE <<ShutdownEvent(c.msg)>>,
        !.calls = @ \o c.calls,
        !.fields = @ \cup fields]

\* Variant that waits WAIT_SEC whatever wait CheckLater carries.
follow_instruction_fixed_wait(r, env) ==
    IF r.instruction.kind = "CommitGenesis"
    THEN committed(r, commit_genesis(r.self, env), {"engine"})
    ELSE IF r.instruction.kind = "CommitUpgrade"
    THEN committed(r,
                   commit_upgrade(r.self, env, unwrap(r.instruction.header)),
                   IF env.upgrade_config_ok
                   THEN {"upgrade_config_ok", "engine"}
                   ELSE {"upgrade_config_ok"})
    ELSE IF r.instruction.kind = "Do"
    THEN [r EXCEPT !.effects = @ \o <<ReactorCrank("set_timeout", WAIT_SEC)>>]
    ELSE IF r.instruction.kind = "CheckLater"
    THEN [r EXCEPT !.effects = <<ReactorCrank("set_timeout", WAIT_SEC)>>]
    ELSE IF r.instruction.kind = "CheckSoon"
    THEN [r EXCEPT !.effects = <<ReactorCrank("immediately", 0)>>]
    ELSE IF r.instruction.kind = "Shutdown"
    THEN [r EXCEPT !.effects = <<ShutdownEvent(r.instruction.msg)>>]
    ELSE [r EXCEPT !.self.state = "KeepUp",
                   !.effects = <<ReactorCrank("immediately", 0)>>]

\* Variant that after Do schedules a crank at once besides the timed one.
follow_instruction_crank_twice(r, env) ==
    IF r.instruction.kind = "CommitGenesis"
    THEN committed(r, commit_genesis(r.self, env), {"engine"})
    ELSE IF r.instruction.kind = "CommitUpgrade"
    THEN committed(r,
                   commit_upgrade(r.self, env, unwrap(r.instruction.header)),
                   IF env.upgrade_config_ok
                   THEN {"upgrade_config_ok", "engine"}
                   ELSE {"upgrade_config_ok"})
    ELSE IF r.instruction.kind = "Do"
    THEN [r EXCEPT !.effects = @ \o <<ReactorCrank("set_timeout", WAIT_SEC),
                                     ReactorCrank("immediately", 0)>>]
    ELSE IF r.instruction.kind = "CheckLater"
    THEN [r EXCEPT !.effects = <<ReactorCrank("set_timeout", r.instruction.wait)>>]
    ELSE IF r.instruction.kind = "CheckSoon"
    THEN [r EXCEPT !.effects = <<ReactorCrank("immediately", 0)>>]
    ELSE IF r.instruction.kind = "Shutdown"
    THEN [r EXCEPT !.effects = <<ShutdownEvent(r.instruction.msg)>>]
    ELSE [r EXCEPT !.self.state = "KeepUp",
                   !.effects = <<ReactorCrank("immediately", 0)>>]

\* The CatchUp arm of crank, given the outcome r of catch_up_instructions.
follow_instruction(r, env) ==
    IF r.instruction.kind = "CommitGenesis"
    THEN committed(r, commit_genesis(r.self, env), {"engine"})
    ELSE IF r.instruction.kind = "CommitUpgrade"
    THEN committed(r,
                   commit_upgrade(r.self, env, unwrap(r.instruction.header)),
                   IF env.upgrade_config_ok
                   THEN {"upgrade_config_ok", "engine"}
                   ELSE {"upgrade_config_ok"})
    ELSE IF r.instruction.kind = "Do"
    THEN [r EXCEPT !.effects = @ \o <<ReactorCrank("set_timeout", WAIT_SEC)>>]
    ELSE IF r.instruction.kind = "CheckLater"
    THEN [r EXCEPT !.effects = <<ReactorCrank("set_timeout", r.instruction.wait)>>]
    ELSE IF r.instruction.kind = "CheckSoon"
    THEN [r EXCEPT !.effects = <<ReactorCrank("immediately", 0)>>]
    ELSE IF r.instruction.kind = "Shutdown"
    THEN [r EXCEPT !.effects = <<ShutdownEvent(r.instruction.msg)>>]
    ELSE [r EXCEPT !.self.state = "KeepUp",
                   !.effects = <<ReactorCrank("immediately", 0)>>]

crank_catch_up(self, env) ==
    follow_instruction(catch_up_instructions(self, env), env)

\* Variant that does not wait for the last subsystem.
crank_initialize_but_last(self, env) ==
    LET i == FirstPending(env, 1)
    IN IF i # 0 /\ i # Len(Components)
       THEN Outcome(self, NoInstruction,
                    unwrap(initialize_component(env, Components[i])),
                    <<>>, NoStartingPoint, {"pending"}, FALSE)
       ELSE Outcome([self EXCEPT !.state = "CatchUp"], NoInstruction,
                    <<ReactorCrank("immediately", 0)>>,
                    <<>>, NoStartingPoint, {"pending"}, FALSE)

\* Variant that brings up the RPC server as soon as it is pending.
crank_initialize_rpc_first(self, env) ==
    LET i == IF "rpc_server" \in env.pending
             THEN Len(Components) ELSE FirstPending(env, 1)
    IN IF i # 0
       THEN Outcome(self, NoInstruction,
                    unwrap(initialize_component(env, Components[i])),
                    <<>>, NoStartingPoint, {"pending"}, FALSE)
       ELSE Outcome([self EXCEPT !.state = "CatchUp"], NoInstruction,
                    <<ReactorCrank("immediately", 0)>>,
                    <<>>, NoStartingPoint, {"pending"}, FALSE)

\* The Initialize arm of crank.
crank_initialize(self, env) ==
    LET i == FirstPending(env, 1)
    IN IF i # 0
       THEN Outcome(self, NoInstruction,
                    unwrap(initialize_component(env, Components[i])),
                    <<>>, NoStartingPoint, {"pending"}, FALSE)
       ELSE Outcome([self EXCEPT !.state = "CatchUp"], NoInstruction,
                    <<ReactorCrank("immediately", 0)>>,
                    <<>>, NoStartingPoint, {"pending"}, FALSE)

\* The KeepUp arm of crank; todo!() panics.
crank_keep_up(self, env) ==
    LET sync == env.sync_instruction
        again == <<ReactorCrank("immediately", 0)>>
        start == StartingWithHash(DefaultBlockHash)
    IN IF sync.kind = "Leap"
       THEN Outcome([self EXCEPT !.state = "CatchUp"], NoInstruction, again,
                    <<>>, start, {"sync_instruction"}, FALSE)
       ELSE IF sync.kind = "BlockSync"
       THEN Outcome(self, NoInstruction, <<>>,
                    <<register_block_by_hash(sync.block_hash,
                                             sync.should_fetch_execution_state)>>,
                    start, {"sync_instruction"}, TRUE)
       ELSE IF sync.kind = "BlockExec"
       THEN Outcome(self, NoInstruction, again,
                    <<register_block_by_hash(sync.block_hash, FALSE)>>,
                    start, {"sync_instruction"}, FALSE)
       ELSE IF env.is_active_validator
       THEN Outcome([self EXCEPT !.state = "Validate"], NoInstruction, again,
                    <<>>, start,
                    {"sync_instruction", "is_active_validator"}, FALSE)
       ELSE Outcome(self, NoInstruction, again, <<>>, start,
                    {"sync_instruction", "is_active_validator"}, FALSE)

\* Variant that never leaves Validate.
crank_validate_sticky(self, env) ==
    Outcome(IF env.is_active_validator = FALSE
            THEN [self EXCEPT !.state = "Validate"] ELSE self,
            NoInstruction, <<ReactorCrank("immediately", 0)>>, <<>>,
            NoStartingPoint, {"is_active_validator"}, FALSE)

\* Variant that sends a validator that is no longer active back to CatchUp.
crank_validate_back_to_catch_up(self, env) ==
    Outcome(IF env.is_active_validator = FALSE
            THEN [self EXCEPT !.state = "CatchUp"] ELSE self,
            NoInstruction, <<ReactorCrank("immediately", 0)>>, <<>>,
            NoStartingPoint, {"is_active_validator"}, FALSE)

\* The Validate arm of crank.
crank_validate(self, env) ==
    Outcome(IF env.is_active_validator = FALSE
            THEN [self EXCEPT !.state = "KeepUp"] ELSE self,
            NoInstruction, <<ReactorCrank("immediately", 0)>>, <<>>,
            NoStartingPoint, {"is_active_validator"}, FALSE)

\* MainReactor::crank
crank(self, env) ==
    IF self.state = "Initialize" THEN crank_initialize(self, env)
    ELSE IF self.state = "CatchUp" THEN crank_catch_up(self, env)
    ELSE IF self.state = "KeepUp" THEN crank_keep_up(self, env)
    ELSE crank_validate(self, env)

\* The reactor as the crank reads and writes it: its state, the attempts
\* counter, and the two settings read from the configuration.
Reactor(state, attempts, trusted_hash, activation_point) ==
    [state |-> state, attempts |-> attempts, trusted_hash |-> trusted_hash,
     activation_point |-> activation_point]

TrustedHashes == {None, Some(TrustedHash)}

\* Readings a crank can be given in each reactor state.
InitializeReadings ==
    {[NoReadings EXCEPT !.pending = p] :
        p \in SUBSET {Components[i] : i \in DOMAIN Components}}

EngineReadings ==
    {<<FALSE, EngineErr>>} \cup {<<TRUE, e>> : e \in EngineResult}

CatchUpReadings ==
    {[NoReadings EXCEPT !.last_progress = lp, !.now_idle = n1,
                        !.now_genesis = n2, !.highest_block = tip,
                        !.read_block = rb, !.sync_instruction = s,
                        !.upgrade_config_ok = e[1], !.engine = e[2],
                        !.peers_to_ask = peers] :
        lp \in {None, Some(0)}, n1 \in Timestamps, n2 \in Timestamps,
        tip \in {None} \cup {Some(b) : b \in LocalBlocks},
        rb \in ReadBlockResult, s \in SyncInstruction, e \in EngineReadings,
        peers \in PeerSamples}

KeepUpReadings ==
    {[NoReadings EXCEPT !.sync_instruction = s, !.is_active_validator = v] :
        s \in SyncInstruction, v \in BOOLEAN}

ValidateReadings ==
    {[NoReadings EXCEPT !.is_active_validator = v] : v \in BOOLEAN}

\* Readings that differ only in what the crank does not consult lead to the
\* same step: one of them stands for all.
Distinct(self, readings) ==
    {env \in readings : Consulted(env, crank(self, env).fields) = env}

CatchUpTable ==
    [self \in {Reactor("CatchUp", a, t, p) :
                  a \in 0..(max_attempts + 2), t \in TrustedHashes,
                  p \in ActivationPoint}
        |-> Distinct(self, CatchUpReadings)]

Readings(self) ==
    IF self.state = "Initialize" THEN InitializeReadings
    ELSE IF self.state = "CatchUp" THEN CatchUpTable[self]
    ELSE IF self.state = "KeepUp" THEN Distinct(self, KeepUpReadings)
    ELSE ValidateReadings

\* The record kept of a crank.
Cranked(before, env, r) ==
    [handled |-> TRUE,
     before |-> before, readings |-> env, instruction |-> r.instruction,
     effects |-> r.effects, calls |-> r.calls,
     starting_with |-> r.starting_with, panicked |-> r.panicked]

IsCommit(call) ==
    /\ call.component = "contract_runtime"
    /\ call.method \in {"commit_genesis", "commit_upgrade"}

\* No commit has been asked of the contract runtime.
NoCommits == [done |-> {}, repeated |-> FALSE]

\* The record of commits after a crank with outcome r: a crank that invoked
\* commit_genesis or commit_upgrade on the contract runtime adds the header
\* its instruction carried (None for genesis, Some(header) for an upgrade),
\* and is a repeat if that header was there.  Nothing is recorded after the
\* first repeat.
Committing(record, r) ==
    IF SelectSeq(r.calls, IsCommit) = <<>> \/ record.repeated THEN record
    ELSE IF r.instruction.header \in record.done
    THEN [done |-> {}, repeated |-> TRUE]
    ELSE [done |-> record.done \cup {r.instruction.header},
          repeated |-> FALSE]

\* Before the first crank: the reactor is constructed in Initialize and one
\* ReactorCrank is on the queue.
NotCranked(self) ==
    [handled |-> FALSE,
     before |-> self, readings |-> NoReadings, instruction |-> NoInstruction,
     effects |-> <<ReactorCrank("immediately", 0)>>, calls |-> <<>>,
     starting_with |-> NoStartingPoint, panicked |-> FALSE]

\* ------------------------------------------------------------------------
\* Diagnostics port (diagnostics_port/tasks.rs)
\* ------------------------------------------------------------------------
\* Bounds: connections made to the socket, command lines written in a
\* session, and queue dumps asked for by all clients together where only the
\* shutdown is studied.
MaxClients == 2
MaxLines == 3
MaxDumps == 1

ClientIds == 0..(MaxClients - 1)

\* The one client of ensure_diagnostics_port_can_dump_events.
TestClients == 1

\* Command lines the client of a session writes, and the line the clients
\* write where only the shutdown is studied.
Lines == {"set -q true", "dump-queues", "quit"}
DumpLines == {"dump-queues"}

\* What the reactor answers to a dump request, and what the file system
\* answers to the temporary directory and file of a queue dump.
DumpResults == {"ok", "failed", "tempdir_failed"}

\* Outcome::success and Outcome::failed
success(msg) == [outcome |-> "Success", text |-> msg]
failed(reason) == [outcome |-> "Failure", text |-> reason]

\* Session::default(): not quiet, interactive output.
SessionDefault == [quiet |-> FALSE, output |-> "Interactive"]

\* An Action of a Command; quiet and output are the options of Set.
Action(kind, quiet, output) == [kind |-> kind, quiet |-> quiet, output |-> output]

\* Command::from_line: the action of a line, or a parse error.
from_line(line) ==
    IF line = "session" THEN [ok |-> TRUE, action |-> Action("Session", None, None)]
    ELSE IF line = "set -q true"
    THEN [ok |-> TRUE, action |-> Action("Set", Some(TRUE), None)]
    ELSE IF line = "set -q false"
    THEN [ok |-> TRUE, action |-> Action("Set", Some(FALSE), None)]
    ELSE IF line = "set -o json -q false"
    THEN [ok |-> TRUE, action |-> Action("Set", Some(FALSE), Some("Json"))]
    ELSE IF line = "dump-consensus"
    THEN [ok |-> TRUE, action |-> Action("DumpConsensus", None, None)]
    ELSE IF line = "dump-queues"
    THEN [ok |-> TRUE, action |-> Action("DumpQueues", None, None)]
    ELSE IF line = "quit" THEN [ok |-> TRUE, action |-> Action("Quit", None, None)]
    ELSE [ok |-> FALSE, action |-> Action("", None, None)]

\* Session::send_to_client: the response as written, in the output format
\* of the session.
send_to_client(self, response) == <<[format |-> self.output, body |-> response]>>

\* Session::send_outcome: dropped silently in quiet mode.
send_outcome(self, response) ==
    IF self.quiet THEN <<>> ELSE send_to_client(self, response)

\* The result of process_line: the session afterwards, what was written to
\* the client, Ok(keep_going) or an io error, or a panic.
Processed(self, written, keep_going) ==
    [session |-> self, written |-> written, keep_going |-> keep_going,
     ok |-> TRUE, panicked |-> FALSE]

\* The Set arm of process_line.
process_set(self, quiet, output) ==
    LET s1 == IF is_some(quiet) THEN [self EXCEPT !.quiet = unwrap(quiet)] ELSE self
        s2 == IF is_some(output) THEN [s1 EXCEPT !.output = unwrap(output)] ELSE s1
    IN Processed(s2,
                 send_outcome(s2, IF s2 # self
                                  THEN success("session updated")
                                  ELSE success("session unchanged")),
                 TRUE)

\* Variant that goes on after quit.
process_line_after_quit(self, line, dump) ==
    LET cmd == from_line(line)
        kind == cmd.action.kind
    IN IF ~cmd.ok
       THEN Processed(self, send_outcome(self, failed("parse error")), TRUE)
       ELSE IF kind = "Session"
       THEN Processed(self,
                      send_outcome(self, success("showing session info"))
                          \o send_to_client(self, self),
                      TRUE)
       ELSE IF kind = "Set"
       THEN process_set(self, cmd.action.quiet, cmd.action.output)
       ELSE IF kind = "DumpConsensus"
       THEN IF dump = "ok"
            THEN Processed(self,
                           send_outcome(self, success("dumping consensus state"))
                               \o <<[format |-> "raw", body |-> "era dump"]>>,
                           TRUE)
            ELSE Processed(self, send_outcome(self, failed(dump)), TRUE)
       ELSE IF kind = "DumpQueues"
       THEN IF dump = "tempdir_failed"
            THEN [Processed(self, <<>>, TRUE) EXCEPT !.panicked = TRUE]
            ELSE IF dump = "failed"
            THEN Processed(self,
                           send_outcome(self, failed("could not create a temporary file for queue dump")),
                           TRUE)
            ELSE IF dump = "reopen_failed"
            THEN Processed(self,
                           send_outcome(self, failed("could not reopen temporary file")),
                           TRUE)
            ELSE Processed(self,
                           send_outcome(self, success("dumping queues"))
                               \o <<[format |-> "raw", body |-> "queue dump"]>>,
                           TRUE)
       ELSE Processed(self, send_outcome(self, success("goodbye!")), TRUE)

\* Session::process_line, when every write succeeds; dump is the answer to a
\* dump request.
process_line(self, line, dump) ==
    LET cmd == from_line(line)
        kind == cmd.action.kind
    IN IF ~cmd.ok
       THEN Processed(self, send_outcome(self, failed("parse error")), TRUE)
       ELSE IF kind = "Session"
       THEN Processed(self,
                      send_outcome(self, success("showing session info"))
                          \o send_to_client(self, self),
                      TRUE)
       ELSE IF kind = "Set"
       THEN process_set(self, cmd.action.quiet, cmd.action.output)
       ELSE IF kind = "DumpConsensus"
       THEN IF dump = "ok"
            THEN Processed(self,
                           send_outcome(self, success("dumping consensus state"))
                               \o <<[format |-> "raw", body |-> "era dump"]>>,
                           TRUE)
            ELSE Processed(self, send_outcome(self, failed(dump)), TRUE)
       ELSE IF kind = "DumpQueues"
       THEN IF dump = "tempdir_failed"
            THEN [Processed(self, <<>>, TRUE) EXCEPT !.panicked = TRUE]
            ELSE IF dump = "failed"
            THEN Processed(self,
                           send_outcome(self, failed("could not create a temporary file for queue dump")),
                           TRUE)
            ELSE IF dump = "reopen_failed"
            THEN Processed(self,
                           send_outcome(self, failed("could not reopen temporary file")),
                           TRUE)
            ELSE Processed(self,
                           send_outcome(self, success("dumping queues"))
                               \o <<[format |-> "raw", body |-> "queue dump"]>>,
                           TRUE)
       ELSE Processed(self, send_outcome(self, success("goodbye!")), FALSE)

\* process_line with its writes: a write that fails ends the call with the
\* io error, and nothing more is written.
process_line_io(self, line, dump, io_ok) ==
    LET r == process_line(self, line, dump)
    IN IF r.written # <<>> /\ ~io_ok /\ ~r.panicked
       THEN [r EXCEPT !.written = <<>>, !.ok = FALSE]
       ELSE r

\* A command line on a connection, numbered in the order the client wrote it.
Line(cmd, seq) == [cmd |-> cmd, seq |-> seq]
NoLine == Line("", 0)

\* A connection as the two ends see it: the lines written by the client and
\* not yet read by the handler, the number of lines written, and whether the
\* client has closed its end.
NoStream == [inbound |-> <<>>, written |-> 0, client_closed |-> FALSE]

\* A handler task: where it is in its loop ("none" before it is spawned,
\* "parked" in the select with both futures pending, "polled" after the
\* shutdown future was found pending, "processing" inside process_line,
\* "done" once it returned), its session, the line being processed, and how
\* the handler ended.
Handler(pc, session, line, result) ==
    [pc |-> pc, session |-> session, line |-> line, result |-> result]

NoHandler == Handler("none", SessionDefault, NoLine, "")

\* handler, on entry: a default session, waiting in the select.
handler_spawned == Handler("parked", SessionDefault, NoLine, "")

\* handler returns.
handler_returns(self, result) == [self EXCEPT !.pc = "done", !.result = result]

\* handler, polling the shutdown future first: it completes once the sender
\* is dropped.
handler_select(self, sender) ==
    IF sender = "dropped" THEN handler_returns(self, "shutdown")
    ELSE [self EXCEPT !.pc = "polled"]

\* handler, polling lines.next_line(): the handler afterwards and the lines
\* left unread.
handler_next_line(self, stream, io_ok) ==
    IF ~io_ok
    THEN [handler |-> handler_returns(self, "io_error"), inbound |-> stream.inbound]
    ELSE IF stream.inbound # <<>>
    THEN [handler |-> [self EXCEPT !.pc = "processing",
                                   !.line = Head(stream.inbound)],
          inbound |-> Tail(stream.inbound)]
    ELSE IF stream.client_closed
    THEN [handler |-> handler_returns(self, "client_closed"),
          inbound |-> stream.inbound]
    ELSE [handler |-> [self EXCEPT !.pc = "parked"], inbound |-> stream.inbound]

\* handler, once process_line has returned r for the line it had read.
handler_processed(self, r) ==
    LET after == [self EXCEPT !.session = r.session, !.line = NoLine]
    IN IF r.panicked THEN handler_returns(after, "panicked")
       ELSE IF ~r.ok THEN handler_returns(after, "io_error")
       ELSE IF r.keep_going THEN [after EXCEPT !.pc = "parked"]
       ELSE handler_returns(after, "quit")

\* The server task: where it is ("select" parked in the select, "accept" in
\* the accept loop after the shutdown future was found pending, "remove"
\* about to remove the socket file, "done" once it returned), the next client
\* id, the number of attempts to remove the socket file and the result of the
\* last one.
Server(pc, next_client_id, attempts, removed) ==
    [pc |-> pc, next_client_id |-> next_client_id, attempts |-> attempts,
     removed |-> removed]

server_started == Server("select", 0, 0, "")

\* server, polling the shutdown future first.
server_select(self, sender) ==
    IF sender = "dropped" THEN [self EXCEPT !.pc = "remove"]
    ELSE [self EXCEPT !.pc = "accept"]

\* Variant that tries again when the socket file could not be removed.
server_remove_again(self, removed_ok) ==
    IF removed_ok
    THEN [self EXCEPT !.pc = "done", !.attempts = @ + 1, !.removed = "ok"]
    ELSE [self EXCEPT !.attempts = @ + 1, !.removed = "failed"]

\* server, after the select: fs::remove_file, with a warning if it fails.
server_remove(self, removed_ok) ==
    [self EXCEPT !.pc = "done", !.attempts = @ + 1,
                 !.removed = IF removed_ok THEN "ok" ELSE "failed"]

\* What was seen of a session: the number of lines processed, the last one of
\* them, and what was written to the client for it.
SessionSeen(processed, last_line, reply) ==
    [processed |-> processed, last_line |-> last_line, reply |-> reply]

NothingSeen == SessionSeen(0, NoLine, <<>>)

\* The session after process_line returned r for line.
Observing(session, line, r) == SessionSeen(session.processed + 1, line, r.written)

\* The listening socket: connections made and not yet accepted, and all
\* connections made so far.
Listener(pending, connects) == [pending |-> pending, connects |-> connects]

\* ------------------------------------------------------------------------
\* State
\* ------------------------------------------------------------------------
VARIABLES
    acceptor,     \* Option<BlockGossipAcceptor>: None until constructed
    last,         \* the last call on the acceptor: operation, result, and the
                  \* values its can_execute evaluations returned
    origin,       \* constructor that built the acceptor ("" while vacant)
    seen_true,    \* some can_execute evaluation has returned true
    ready_count,  \* number of register calls that returned Ok(true)
    scenario,     \* progress through the weight-crossing scenario (0 = off)
    reactor,      \* MainReactor: state, attempts, trusted_hash, activation point
    cranked,      \* the last crank: the reactor before it, what it read, the
                  \* instruction it followed, the effects it returned, the
                  \* calls it made, and whether it panicked
    stale_run,    \* number of consecutive cranks, up to the last one, that
                  \* were handled in CatchUp with progress older than
                  \* idle_tolerances
    commits,      \* what the contract runtime was asked to commit so far:
                  \* genesis (None) or an upgrade on a header (Some(header)),
                  \* and whether any of them was asked more than once
    shutdown_sender, \* the sender of the shutdown channel: "alive" or "dropped"
    server,       \* the diagnostics server task
    listener,     \* the listening socket of the diagnostics port
    handlers,     \* the handler task of each client id
    streams,      \* the connection of each client id
    sessions      \* what was seen of the session of each client id

acceptor_vars == <<acceptor, last, origin, seen_true, ready_count, scenario>>
reactor_vars == <<reactor, cranked, stale_run, commits>>
diag_vars == <<shutdown_sender, server, listener, handlers, streams, sessions>>
vars == <<acceptor_vars, reactor_vars, diag_vars>>

\* A call as it is observed: the operation, its result, the values its
\* can_execute evaluations returned, the case its arguments fall in (see
\* SignatureCase and BlockCase), for a re-signing the signature passed, and
\* whether the debug assertions evaluated during the call held.
Call(op, ret, evals, case, sig, assert_ok) ==
    [op |-> op, ret |-> ret, evals |-> evals, case |-> case, sig |-> sig,
     assert_ok |-> assert_ok]

\* The case of a register_signature call: the signature is of another era
\* than the stored block ("wrong_era"), or its key is already in the map with
\* another signature body ("resigned").
SignatureCase(self, sig) ==
    IF /\ is_some(self.block_added)
       /\ unwrap(self.block_added).era_id # sig.era_id
    THEN "wrong_era"
    ELSE IF /\ sig.public_key \in DOMAIN self.signatures
            /\ self.signatures[sig.public_key].signature # sig.signature
    THEN "resigned"
    ELSE ""

\* The case of a register_block call: no block is stored and the incoming
\* block fails validate() ("invalid_block").
BlockCase(self, b) ==
    IF is_none(self.block_added) /\ ~b.valid THEN "invalid_block" ELSE ""

\* The acceptor is studied with the reactor at rest.
Init ==
    /\ acceptor = None
    /\ last = Call("none", Ok(FALSE), <<>>, "", None, TRUE)
    /\ origin = ""
    /\ seen_true = FALSE
    /\ ready_count = 0
    /\ scenario = 0
    /\ reactor = Reactor("Initialize", 0, None, Genesis(0))
    /\ cranked = NotCranked(reactor)
    /\ stale_run = 0
    /\ commits = NoCommits
    /\ shutdown_sender = "alive"
    /\ server = server_started
    /\ listener = Listener(0, 0)
    /\ handlers = [i \in ClientIds |-> NoHandler]
    /\ streams = [i \in ClientIds |-> NoStream]
    /\ sessions = [i \in ClientIds |-> NothingSeen]

Count(n, ret) == IF ret.ok /\ ret.val /\ n < MaxReady THEN n + 1 ELSE n

Seen(evals) == seen_true \/ \E i \in DOMAIN evals : evals[i]

\* Weight-crossing scenario: a block of era 1 is present, the weights of era 1
\* are supplied on every call, and verified signatures of A, B, C and A again
\* are registered in this order.  scenario is the number of the step reached
\* (1 = block present, 2 = A, 3 = B, 4 = C, 5 = A again), 0 once the calls
\* leave the scenario.
ScenarioEra == 1
ScenarioWeights == Some([era_id |-> ScenarioEra,
                         validator_weights |-> WeightTable(ScenarioEra)])
ScenarioKey(step) ==
    IF step = 1 THEN "A" ELSE IF step = 2 THEN "B"
    ELSE IF step = 3 THEN "C" ELSE "A"

ScenarioAfterSignature(sig, w) ==
    IF /\ scenario \in 1..4
       /\ w = ScenarioWeights
       /\ sig.verified
       /\ sig.era_id = ScenarioEra
       /\ sig.public_key = ScenarioKey(scenario)
    THEN scenario + 1 ELSE 0

\* The first gossip item is a block-added: the acceptor is built from it.
NewFromBlockAdded(b) ==
    /\ acceptor = None
    /\ LET r == new_from_block_added(b)
       IN /\ acceptor' = r.self
          /\ last' = Call("new_from_block_added", r.ret, <<>>, "", None, TRUE)
          /\ origin' = IF r.ret.ok THEN "block_added" ELSE ""
          /\ scenario' = IF r.ret.ok /\ b.era_id = ScenarioEra THEN 1 ELSE 0
    /\ UNCHANGED <<seen_true, ready_count, reactor_vars, diag_vars>>

\* The first gossip item is a finality signature.
NewFromFinalitySignature(sig, w) ==
    /\ acceptor = None
    /\ LET r == new_from_finality_signature(sig, w)
       IN /\ acceptor' = r.self
          /\ last' = Call("new_from_finality_signature", r.ret, <<>>, "", None,
                          TRUE)
          /\ origin' = IF r.ret.ok THEN "finality_signature" ELSE ""
    /\ UNCHANGED <<seen_true, ready_count, scenario, reactor_vars, diag_vars>>

RegisterSignature(sig, w) ==
    /\ is_some(acceptor)
    /\ LET r == register_signature(unwrap(acceptor), sig, w)
           case == SignatureCase(unwrap(acceptor), sig)
       IN /\ acceptor' = Some(r.self)
          /\ last' = Call("register_signature", r.ret, r.evals, case,
                          IF case = "resigned" THEN Some(sig) ELSE None,
                          r.assert_ok)
          /\ seen_true' = Seen(r.evals)
          /\ ready_count' = Count(ready_count, r.ret)
    /\ scenario' = ScenarioAfterSignature(sig, w)
    /\ UNCHANGED <<origin, reactor_vars, diag_vars>>

RegisterBlock(b, w) ==
    /\ is_some(acceptor)
    /\ LET r == register_block(unwrap(acceptor), b, w)
       IN /\ acceptor' = Some(r.self)
          /\ last' = Call("register_block", r.ret, r.evals,
                          BlockCase(unwrap(acceptor), b), None, r.assert_ok)
          /\ seen_true' = Seen(r.evals)
          /\ ready_count' = Count(ready_count, r.ret)
    /\ scenario' = 0
    /\ UNCHANGED <<origin, reactor_vars, diag_vars>>

CanExecute(w) ==
    /\ is_some(acceptor)
    /\ LET r == can_execute(unwrap(acceptor), w)
       IN /\ acceptor' = Some(r.self)
          /\ last' = Call("can_execute", Ok(r.ret), <<r.ret>>, "", None,
                          r.assert_ok)
          /\ seen_true' = Seen(<<r.ret>>)
    /\ scenario' = IF w = ScenarioWeights THEN scenario ELSE 0
    /\ UNCHANGED <<origin, ready_count, reactor_vars, diag_vars>>

Next ==
    \/ \E b \in BlockAdded : NewFromBlockAdded(b)
    \/ \E sig \in FinalitySignature, w \in OptionWeights :
           NewFromFinalitySignature(sig, w)
    \/ \E sig \in FinalitySignature, w \in OptionWeights :
           RegisterSignature(sig, w)
    \/ \E b \in BlockAdded, w \in OptionWeights : RegisterBlock(b, w)
    \/ \E w \in OptionWeights : CanExecute(w)

Spec == Init /\ [][Next]_vars

\* ------------------------------------------------------------------------
\* The reactor: one action per arm of crank
\* ------------------------------------------------------------------------
\* The readings of a crank show progress that is older than idle_tolerances.
StaleProgress(env) ==
    /\ is_some(env.last_progress)
    /\ saturating_diff(env.now_idle, unwrap(env.last_progress))
           > idle_tolerances

\* The reactor is studied with no acceptor built.
InitRCL ==
    /\ acceptor = None
    /\ last = Call("none", Ok(FALSE), <<>>, "", None, TRUE)
    /\ origin = ""
    /\ seen_true = FALSE
    /\ ready_count = 0
    /\ scenario = 0
    /\ \E t \in TrustedHashes, p \in ActivationPoint :
           reactor = Reactor("Initialize", 0, t, p)
    /\ cranked = NotCranked(reactor)
    /\ stale_run = 0
    /\ commits = NoCommits
    /\ shutdown_sender = "alive"
    /\ server = server_started
    /\ listener = Listener(0, 0)
    /\ handlers = [i \in ClientIds |-> NoHandler]
    /\ streams = [i \in ClientIds |-> NoStream]
    /\ sessions = [i \in ClientIds |-> NothingSeen]

\* A ReactorCrank is on the queue: the last crank scheduled one, or returned
\* the initialization effects of a subsystem, and it did not panic.
CrankPending ==
    /\ ~cranked.panicked
    /\ \E i \in DOMAIN cranked.effects :
           cranked.effects[i].event \in {"ReactorCrank", "Initialize"}

\* The reactor handles the ReactorCrank event with the readings env; r is the
\* outcome of the crank.
Cranking(env, r) ==
    /\ reactor' = r.self
    /\ cranked' = Cranked(reactor, env, r)
    /\ stale_run' =
           IF reactor.state = "CatchUp" /\ StaleProgress(env)
           THEN stale_run + 1 ELSE 0
    /\ UNCHANGED <<acceptor_vars, diag_vars>>

Crank(env) ==
    /\ CrankPending
    /\ Cranking(env, crank(reactor, env))
    /\ UNCHANGED commits

\* A subsystem that has reported initialized stays initialized: the
\* subsystems pending on a crank were pending on the crank before.
StillPending(env) ==
    cranked.handled => env.pending \subseteq cranked.readings.pending

CrankInitialize ==
    /\ reactor.state = "Initialize"
    /\ \E env \in Readings(reactor) : StillPending(env) /\ Crank(env)

CrankCatchUp ==
    /\ reactor.state = "CatchUp"
    /\ \E env \in Readings(reactor) : Crank(env)

CrankKeepUp ==
    /\ reactor.state = "KeepUp"
    /\ \E env \in Readings(reactor) : Crank(env)

CrankValidate ==
    /\ reactor.state = "Validate"
    /\ \E env \in Readings(reactor) : Crank(env)

NextRCL ==
    \/ CrankInitialize
    \/ CrankCatchUp
    \/ CrankKeepUp
    \/ CrankValidate

SpecRCL == InitRCL /\ [][NextRCL]_vars

\* ------------------------------------------------------------------------
\* The reactor with its commits recorded: the same cranks, and a record of
\* what the CatchUp cranks asked the contract runtime to commit
\* ------------------------------------------------------------------------
Recording(env, r) ==
    /\ Cranking(env, r)
    /\ commits' = Committing(commits, r)

CrankCatchUpRecorded ==
    /\ reactor.state = "CatchUp"
    /\ CrankPending
    /\ \E env \in Readings(reactor) : Recording(env, crank(reactor, env))

NextCommits ==
    \/ CrankInitialize
    \/ CrankCatchUpRecorded
    \/ CrankKeepUp
    \/ CrankValidate

SpecCommits == InitRCL /\ [][NextCommits]_vars

\* ------------------------------------------------------------------------
\* The diagnostics port: the server task, one handler task per accepted
\* connection, the clients, and the owner of the shutdown channel
\* ------------------------------------------------------------------------
\* The port is studied with no acceptor built and the reactor at rest.
InitDiag ==
    /\ acceptor = None
    /\ last = Call("none", Ok(FALSE), <<>>, "", None, TRUE)
    /\ origin = ""
    /\ seen_true = FALSE
    /\ ready_count = 0
    /\ scenario = 0
    /\ reactor = Reactor("Initialize", 0, None, Genesis(0))
    /\ cranked = NotCranked(reactor)
    /\ stale_run = 0
    /\ commits = NoCommits
    /\ shutdown_sender = "alive"
    /\ server = server_started
    /\ listener = Listener(0, 0)
    /\ handlers = [i \in ClientIds |-> NoHandler]
    /\ streams = [i \in ClientIds |-> NoStream]
    /\ sessions = [i \in ClientIds |-> NothingSeen]

RECURSIVE LinesWritten(_)
LinesWritten(ids) ==
    IF ids = {} THEN 0
    ELSE LET i == CHOOSE j \in ids : TRUE
         IN streams[i].written + LinesWritten(ids \ {i})

\* The owner of the shutdown channel drops the sender.
DropSender ==
    /\ shutdown_sender = "alive"
    /\ shutdown_sender' = "dropped"
    /\ UNCHANGED <<server, listener, handlers, streams>>
    /\ UNCHANGED <<acceptor_vars, reactor_vars, sessions>>

\* A client connects to the socket while the server holds the listener; at
\* most clients connections are made.
ClientConnects(clients) ==
    /\ server.pc \in {"select", "accept"}
    /\ listener.connects < clients
    /\ listener' = Listener(listener.pending + 1, listener.connects + 1)
    /\ UNCHANGED <<shutdown_sender, server, handlers, streams>>
    /\ UNCHANGED <<acceptor_vars, reactor_vars, sessions>>

\* The client of connection i writes a command line; at most lines lines are
\* written.
ClientWrites(i, cmd, lines) ==
    /\ handlers[i].pc \notin {"none", "done"}
    /\ ~streams[i].client_closed
    /\ LinesWritten(ClientIds) < lines
    /\ streams' = [streams EXCEPT
           ![i].inbound = Append(@, Line(cmd, streams[i].written + 1)),
           ![i].written = @ + 1]
    /\ UNCHANGED <<shutdown_sender, server, listener, handlers>>
    /\ UNCHANGED <<acceptor_vars, reactor_vars, sessions>>

\* The client of connection i closes its end.
ClientCloses(i) ==
    /\ handlers[i].pc \notin {"none", "done"}
    /\ ~streams[i].client_closed
    /\ streams' = [streams EXCEPT ![i].client_closed = TRUE]
    /\ UNCHANGED <<shutdown_sender, server, listener, handlers>>
    /\ UNCHANGED <<acceptor_vars, reactor_vars, sessions>>

\* The server task is woken in its select (the sender was dropped or a
\* connection is waiting) and polls the shutdown future; when that completes,
\* the accept loop is dropped and the listener with it.
ServerSelect ==
    /\ server.pc = "select"
    /\ shutdown_sender = "dropped" \/ listener.pending > 0
    /\ server' = server_select(server, shutdown_sender)
    /\ listener' = IF shutdown_sender = "dropped"
                   THEN Listener(0, listener.connects) ELSE listener
    /\ UNCHANGED <<shutdown_sender, handlers, streams>>
    /\ UNCHANGED <<acceptor_vars, reactor_vars, sessions>>

\* The accept loop: a waiting connection is accepted and its handler
\* spawned, or nothing is waiting and the server parks in its select.  A
\* failed accept is logged and the loop goes on.
ServerAccept ==
    /\ server.pc = "accept"
    /\ IF listener.pending = 0
       THEN /\ server' = [server EXCEPT !.pc = "select"]
            /\ UNCHANGED <<listener, handlers>>
       ELSE /\ listener' = Listener(listener.pending - 1, listener.connects)
            /\ handlers' = [handlers EXCEPT
                   ![server.next_client_id] = handler_spawned]
            /\ server' = [server EXCEPT !.next_client_id = @ + 1]
    /\ UNCHANGED <<shutdown_sender, streams>>
    /\ UNCHANGED <<acceptor_vars, reactor_vars, sessions>>

\* The server removes the socket file and returns.
ServerRemove ==
    /\ server.pc = "remove"
    /\ \E removed_ok \in BOOLEAN : server' = server_remove(server, removed_ok)
    /\ UNCHANGED <<shutdown_sender, listener, handlers, streams>>
    /\ UNCHANGED <<acceptor_vars, reactor_vars, sessions>>

\* Handler i is woken in its select (the sender was dropped, a line is
\* there, or the client closed) and polls the shutdown future.
HandlerSelect(i) ==
    /\ handlers[i].pc = "parked"
    /\ \/ shutdown_sender = "dropped"
       \/ streams[i].inbound # <<>>
       \/ streams[i].client_closed
    /\ handlers' = [handlers EXCEPT ![i] = handler_select(@, shutdown_sender)]
    /\ UNCHANGED <<shutdown_sender, server, listener, streams>>
    /\ UNCHANGED <<acceptor_vars, reactor_vars, sessions>>

\* Handler i polls the next line.
HandlerNextLine(i) ==
    /\ handlers[i].pc = "polled"
    /\ \E io_ok \in BOOLEAN :
           LET r == handler_next_line(handlers[i], streams[i], io_ok)
           IN /\ handlers' = [handlers EXCEPT ![i] = r.handler]
              /\ streams' = [streams EXCEPT ![i].inbound = r.inbound]
    /\ UNCHANGED <<shutdown_sender, server, listener>>
    /\ UNCHANGED <<acceptor_vars, reactor_vars, sessions>>

\* process_line returns r to handler i.
Processing(i, r) ==
    /\ handlers' = [handlers EXCEPT ![i] = handler_processed(@, r)]
    /\ UNCHANGED <<shutdown_sender, server, listener, streams>>
    /\ UNCHANGED <<acceptor_vars, reactor_vars>>

HandlerProcessLine(i) ==
    /\ handlers[i].pc = "processing"
    /\ \E dump \in DumpResults, io_ok \in BOOLEAN :
           Processing(i, process_line_io(handlers[i].session,
                                         handlers[i].line.cmd, dump, io_ok))
    /\ UNCHANGED sessions

\* Any number of clients, each asking for queue dumps.
NextDiag ==
    \/ DropSender
    \/ ClientConnects(MaxClients)
    \/ \E i \in ClientIds, cmd \in DumpLines : ClientWrites(i, cmd, MaxDumps)
    \/ \E i \in ClientIds : ClientCloses(i)
    \/ ServerSelect
    \/ ServerAccept
    \/ ServerRemove
    \/ \E i \in ClientIds : HandlerSelect(i)
    \/ \E i \in ClientIds : HandlerNextLine(i)
    \/ \E i \in ClientIds : HandlerProcessLine(i)

\* The runtime polls a task that has been woken: the server and the handlers
\* take the steps of their selects.
TasksPolled ==
    /\ WF_vars(ServerSelect \/ ServerAccept \/ ServerRemove)
    /\ \A i \in ClientIds : WF_vars(HandlerSelect(i) \/ HandlerNextLine(i))

SpecDiag == InitDiag /\ [][NextDiag]_vars /\ TasksPolled

\* ------------------------------------------------------------------------
\* The session of one client, as in ensure_diagnostics_port_can_dump_events:
\* the same tasks, one connection, any command lines
\* ------------------------------------------------------------------------
\* process_line returns r to handler i, and the session is seen.
Observed(i, r) ==
    /\ Processing(i, r)
    /\ sessions' = [sessions EXCEPT ![i] = Observing(@, handlers[i].line, r)]

HandlerProcessLineObserved(i) ==
    /\ handlers[i].pc = "processing"
    /\ \E dump \in DumpResults, io_ok \in BOOLEAN :
           Observed(i, process_line_io(handlers[i].session,
                                       handlers[i].line.cmd, dump, io_ok))

NextSession ==
    \/ DropSender
    \/ ClientConnects(TestClients)
    \/ \E i \in ClientIds, cmd \in Lines : ClientWrites(i, cmd, MaxLines)
    \/ \E i \in ClientIds : ClientCloses(i)
    \/ ServerSelect
    \/ ServerAccept
    \/ ServerRemove
    \/ \E i \in ClientIds : HandlerSelect(i)
    \/ \E i \in ClientIds : HandlerNextLine(i)
    \/ \E i \in ClientIds : HandlerProcessLineObserved(i)

\* The reactor is cranked while the client waits, so that every process_line
\* returns.
RequestsAnswered == \A i \in ClientIds : WF_vars(HandlerProcessLineObserved(i))

SpecSession ==
    InitDiag /\ [][NextSession]_vars /\ TasksPolled /\ RequestsAnswered

\* ------------------------------------------------------------------------
\* Properties
\* ------------------------------------------------------------------------
HasAcceptor == is_some(acceptor)
Acc == unwrap(acceptor)
HasBlock == HasAcceptor /\ is_some(Acc.block_added)
Block == unwrap(Acc.block_added)
Latched == HasAcceptor /\ Acc.can_execute
RegisterOps == {"register_signature", "register_block"}

TotalWeight(w) == SumWeights(w.validator_weights, DOMAIN w.validator_weights)
SignedWeight(w, signatures) == SumWeights(w.validator_weights, DOMAIN signatures)
StrictThreshold(w) == CeilDiv(2 * TotalWeight(w), 3) + 1

\* C1 -- Latch monotonicity: once some can_execute evaluation has returned
\* true, every later evaluation returns true, whatever weights it is given
\* (including None).  Evaluations are the direct calls and the two calls made
\* inside register_signature and register_block.
C1_LatchMonotonicity ==
    [][\A i \in DOMAIN last'.evals :
          (seen_true \/ \E j \in 1..(i - 1) : last'.evals[j])
              => last'.evals[i]]_vars

\* A register call returned Ok(true) earlier and a direct can_execute call
\* that followed it returned true.
C1_Witness ==
    /\ seen_true
    /\ ready_count = 1
    /\ last.op = "can_execute"
    /\ last.ret = Ok(TRUE)

\* C2 -- Edge-transition exclusivity: over any sequence of register_signature
\* and register_block calls at most one returns Ok(true).
C2_AtMostOneReady == ready_count <= 1

\* A register call made after the one that returned Ok(true) returned
\* Ok(false).
C2_Witness ==
    /\ ready_count = 1
    /\ last.op \in RegisterOps
    /\ last.ret = Ok(FALSE)
    /\ Latched

\* C3 -- A register call returns Ok(true) if and only if the latch was unset
\* immediately before the call and is set immediately after it.
C3_ReadyIffLatchEdge ==
    [][(HasAcceptor /\ last'.op \in RegisterOps)
          => (last'.ret = Ok(TRUE)
                 <=> (~Acc.can_execute /\ unwrap(acceptor').can_execute))]_vars

\* C4 -- Weight threshold: with the block present and the latch unset,
\* can_execute(Some(weights)) sets the latch (and returns true) exactly when
\* the summed weight of the signer keys present (unknown keys counting zero)
\* is at least ceil(2W/3) + 1; with a smaller sum the latch stays unset.
C4_WeightThreshold ==
    [][(HasBlock /\ ~Acc.can_execute /\ last'.op = "can_execute")
          => \A w \in EraValidatorWeights :
                 CanExecute(Some(w))
                     => /\ unwrap(acceptor').can_execute
                            <=> SignedWeight(w, Acc.signatures)
                                    >= StrictThreshold(w)
                        /\ last'.ret.val = unwrap(acceptor').can_execute]_vars

\* A direct can_execute call returned true on a block whose signatures reach
\* the threshold of some era's weights, before any register call returned
\* Ok(true).
C4_Witness ==
    /\ HasBlock
    /\ last.op = "can_execute"
    /\ last.ret = Ok(TRUE)
    /\ ready_count = 0
    /\ \E w \in EraValidatorWeights :
           SignedWeight(w, Acc.signatures) >= StrictThreshold(w)

\* C5 (as claimed) -- Weight-crossing scenario: validators A:50, B:40, C:30,
\* block present, the era weights supplied on every call.  After the
\* signatures of A and of B can_execute is false; registering C returns
\* Ok(true) and makes can_execute true; registering A again returns Ok(false).
C5_WeightCrossing ==
    /\ scenario \in 1..3 => ~Latched
    /\ (scenario \in 1..3 /\ last.op = "can_execute") => last.ret = Ok(FALSE)
    /\ (scenario \in 2..3 /\ last.op = "register_signature")
           => last.ret = Ok(FALSE)
    /\ scenario \in 4..5 => Latched
    /\ (scenario \in 4..5 /\ last.op = "can_execute") => last.ret = Ok(TRUE)
    /\ (scenario = 4 /\ last.op = "register_signature") => last.ret = Ok(TRUE)
    /\ (scenario = 5 /\ last.op = "register_signature") => last.ret = Ok(FALSE)

\* C5 (amended) -- in the same scenario the signatures of A and B together
\* weigh 90 >= 81: after the signature of A can_execute is false; registering
\* B returns Ok(true) and makes can_execute true; registering C and then A
\* again each return Ok(false) and can_execute stays true.
C5_WeightCrossingAtB ==
    /\ scenario \in 1..2 => ~Latched
    /\ (scenario \in 1..2 /\ last.op = "can_execute") => last.ret = Ok(FALSE)
    /\ (scenario = 2 /\ last.op = "register_signature") => last.ret = Ok(FALSE)
    /\ scenario \in 3..5 => Latched
    /\ (scenario \in 3..5 /\ last.op = "can_execute") => last.ret = Ok(TRUE)
    /\ (scenario = 3 /\ last.op = "register_signature") => last.ret = Ok(TRUE)
    /\ (scenario \in 4..5 /\ last.op = "register_signature")
           => last.ret = Ok(FALSE)

\* The scenario has run to its end: A was registered a second time.
C5_Witness ==
    /\ scenario = 5
    /\ last.op = "register_signature"
    /\ DOMAIN Acc.signatures = {"A", "B", "C"}

\* C6 -- Whenever block_added is set, block_hash equals the hash of the stored
\* block, for acceptors built from a block and for acceptors built from a
\* finality signature that later received a block.
C6_BlockHashMatches ==
    HasBlock => Acc.block_hash = Block.hash

\* C7 (as claimed) -- every signature held has era_id equal to the acceptor's
\* era_id field.
C7_SignaturesOfAcceptorEra ==
    HasAcceptor =>
        \A k \in DOMAIN Acc.signatures : Acc.signatures[k].era_id = Acc.era_id

\* C7 (amended) -- whenever the acceptor holds a block whose era is the
\* acceptor's era_id field, every signature held has that era_id; an acceptor
\* built from a block always holds such a block.
C7_SignaturesOfAcceptorEraWithBlock ==
    /\ (HasBlock /\ Block.era_id = Acc.era_id) =>
           \A k \in DOMAIN Acc.signatures :
               Acc.signatures[k].era_id = Acc.era_id
    /\ origin = "block_added" => (HasBlock /\ Block.era_id = Acc.era_id)

\* An acceptor built from a block holds signatures of two validators.
C7_Witness ==
    /\ HasBlock
    /\ origin = "block_added"
    /\ Block.era_id = Acc.era_id
    /\ Cardinality(DOMAIN Acc.signatures) >= 2
    /\ last.op = "register_signature"

\* C8 -- Era purity: while a block is stored every signature held has the era
\* of that block, so no register_signature adds one of another era; and a
\* register_block that stores the block keeps exactly the signatures of the
\* block's era.
EraPure ==
    HasBlock =>
        \A k \in DOMAIN Acc.signatures :
            Acc.signatures[k].era_id = Block.era_id

RetainedOnRegisterBlock ==
    (/\ HasAcceptor
     /\ is_none(Acc.block_added)
     /\ last'.op = "register_block"
     /\ last'.ret.ok)
        => LET a == unwrap(acceptor')
               era == unwrap(a.block_added).era_id
           IN /\ is_some(a.block_added)
              /\ DOMAIN a.signatures =
                     {k \in DOMAIN Acc.signatures :
                         Acc.signatures[k].era_id = era}
              /\ \A k \in DOMAIN a.signatures :
                     a.signatures[k] = Acc.signatures[k]

C8_EraPurity == []EraPure /\ [][RetainedOnRegisterBlock]_vars

\* register_block stored a block whose era is not the era the acceptor was
\* built with, and signatures of the block's era remain.
C8_Witness ==
    /\ HasBlock
    /\ last.op = "register_block"
    /\ last.ret.ok
    /\ Block.era_id # Acc.era_id
    /\ Acc.signatures # EmptyMap

\* C9 -- The executable latch being set implies that block_added is present.
C9_LatchImpliesBlock ==
    Latched => is_some(Acc.block_added)

\* The latch is set.
C9_Witness ==
    /\ Latched
    /\ HasBlock
    /\ origin = "finality_signature"

\* A call on the acceptor that is given the weights w.
CallWith(w) ==
    \/ CanExecute(w)
    \/ \E sig \in FinalitySignature : RegisterSignature(sig, w)
    \/ \E b \in BlockAdded : RegisterBlock(b, w)

\* C10 -- The latch is only ever set by an evaluation whose validator weights
\* have the era_id of the acceptor and of the stored block; weights of another
\* era passed to register_signature, register_block or can_execute never set
\* it.
C10_LatchSetByOwnEraWeights ==
    [][(HasAcceptor /\ ~Acc.can_execute /\ unwrap(acceptor').can_execute)
          => \A w \in EraValidatorWeights :
                 CallWith(Some(w))
                     => /\ w.era_id = unwrap(acceptor').era_id
                        /\ w.era_id =
                               unwrap(unwrap(acceptor').block_added).era_id]_vars

\* C11 -- Every finality signature stored, by new_from_finality_signature or
\* by register_signature, satisfies is_verified(): an unverified signature is
\* rejected with InvalidFinalitySignature and is never stored or counted.
C11_StoredSignaturesVerified ==
    HasAcceptor =>
        \A k \in DOMAIN Acc.signatures : Acc.signatures[k].verified

\* C12 -- Wrong-era signature: when the acceptor holds a block,
\* register_signature of a signature whose era_id differs from the block's
\* returns Err(FinalitySignatureWithWrongEra) whose correct_era is the block's
\* era, and leaves the signatures map and the latch exactly as they were.
C12_WrongEraSignatureRejected ==
    [][last'.case = "wrong_era"
          => /\ last'.ret = ErrWrongEra(Block.era_id)
             /\ unwrap(acceptor').signatures = Acc.signatures
             /\ unwrap(acceptor').can_execute = Acc.can_execute]_vars

\* register_signature rejected a signature of another era on an acceptor that
\* holds a block and signatures and whose latch is unset.
C12_Witness ==
    /\ HasBlock
    /\ last.case = "wrong_era"
    /\ last.ret = ErrWrongEra(Block.era_id)
    /\ Acc.signatures # EmptyMap
    /\ ~Acc.can_execute

\* C13 -- Invalid block: register_block of a block that fails validate(), on an
\* acceptor that holds no block, returns Err(InvalidBlockAdded) and leaves
\* block_added, the signatures and the latch unchanged, so that what follows
\* is accepted as if the call had not been made.
C13_InvalidBlockRejected ==
    [][last'.case = "invalid_block"
          => /\ last'.ret = Err("InvalidBlockAdded")
             /\ acceptor' = acceptor]_vars

\* register_block rejected an invalid block on an acceptor that holds
\* signatures of two eras and no block.
C13_Witness ==
    /\ HasAcceptor
    /\ is_none(Acc.block_added)
    /\ last.case = "invalid_block"
    /\ last.ret = Err("InvalidBlockAdded")
    /\ \E j, k \in DOMAIN Acc.signatures :
           Acc.signatures[j].era_id # Acc.signatures[k].era_id

\* C14 -- Duplicate block: register_block on an acceptor that already holds a
\* block returns Ok(false) for any incoming block and any weights, and leaves
\* the stored block, the signatures and the latch unchanged.
C14_DuplicateBlockNoOp ==
    [][(HasBlock /\ last'.op = "register_block")
          => /\ last'.ret = Ok(FALSE)
             /\ acceptor' = acceptor]_vars

\* register_block was called on an acceptor built from a block, which holds
\* signatures that would suffice but whose latch is still unset.
C14_Witness ==
    /\ HasBlock
    /\ origin = "block_added"
    /\ last.op = "register_block"
    /\ last.ret = Ok(FALSE)
    /\ ~Acc.can_execute
    /\ \E w \in EraValidatorWeights :
           /\ w.era_id = Block.era_id
           /\ SignedWeight(w, Acc.signatures) >= StrictThreshold(w)

\* C15 -- Signature de-duplication: a register_signature whose public key is
\* already in the map with a different signature body leaves exactly one
\* entry for that key, the later signature, and the other entries untouched;
\* the weight counted is that of the same set of keys, as if the key had
\* signed once: the evaluation after the insertion returns what the one
\* before it returned, and the call returns Ok(false).
C15_SignatureDeduplicated ==
    [][last'.case = "resigned"
          => LET sig == unwrap(last'.sig)
                 a == unwrap(acceptor')
             IN /\ DOMAIN a.signatures = DOMAIN Acc.signatures
                /\ a.signatures[sig.public_key] = sig
                /\ \A k \in DOMAIN Acc.signatures \ {sig.public_key} :
                       a.signatures[k] = Acc.signatures[k]
                /\ last'.evals[2] = last'.evals[1]
                /\ a.can_execute = last'.evals[2]
                /\ last'.ret = Ok(FALSE)]_vars

\* The resigning validator signed again with the second signature body, on an
\* acceptor built from a block that holds the signature of another validator.
C15_Witness ==
    /\ HasBlock
    /\ origin = "block_added"
    /\ last.case = "resigned"
    /\ unwrap(last.sig).signature = 2
    /\ Acc.signatures[ResigningKey] = unwrap(last.sig)
    /\ Cardinality(DOMAIN Acc.signatures) >= 2

\* ------------------------------------------------------------------------
\* Properties of the reactor control loop
\* ------------------------------------------------------------------------
\* The last crank was handled in the reactor state st.
CrankedIn(st) == cranked.handled /\ cranked.before.state = st

IsReactorCrank(effect) == effect.event = "ReactorCrank"
IsShutdown(effect) == effect.event = "Shutdown"

\* The ReactorCrank events and the Shutdown events the last crank returned.
ScheduledCranks == SelectSeq(cranked.effects, IsReactorCrank)
ShutdownsEmitted == SelectSeq(cranked.effects, IsShutdown)

\* C16 -- RCL progression: the reactor starts in Initialize; a crank handled
\* in Initialize leaves the state Initialize while any of the six subsystems
\* still returns initialization effects, and the first crank on which all six
\* report initialized sets the state to CatchUp and schedules the next crank
\* immediately.
C16_InitializeProgression ==
    /\ ~cranked.handled => reactor.state = "Initialize"
    /\ (CrankedIn("Initialize") /\ cranked.readings.pending # {})
           => reactor.state = "Initialize"
    /\ (CrankedIn("Initialize") /\ cranked.readings.pending = {})
           => /\ reactor.state = "CatchUp"
              /\ cranked.effects = <<ReactorCrank("immediately", 0)>>

\* The crank on which all six subsystems reported initialized set the state
\* to CatchUp and scheduled the next crank immediately.
C16_Witness ==
    /\ CrankedIn("Initialize")
    /\ cranked.readings.pending = {}
    /\ reactor.state = "CatchUp"
    /\ ScheduledCranks = <<ReactorCrank("immediately", 0)>>

\* C17 -- Catch-up idle cap: when max_attempts + 1 consecutive cranks have
\* been handled in CatchUp with the block synchronizer reporting the same
\* last_progress, older than idle_tolerances, the last of them emits Shutdown.
C17_IdleCap ==
    stale_run >= max_attempts + 1 => ShutdownsEmitted # <<>>

\* The cap was hit by a run of exactly max_attempts + 1 stale cranks.
C17_Witness ==
    /\ stale_run = max_attempts + 1
    /\ cranked.before.attempts = max_attempts
    /\ ShutdownsEmitted =
           <<ShutdownEvent("catch up process exceeds idle tolerances")>>

\* The last crank was handled in CatchUp and went past the idleness guard: no
\* progress was reported, or it was stale and the attempts were not used up.
PassedIdlenessGuard ==
    /\ CrankedIn("CatchUp")
    /\ \/ is_none(cranked.readings.last_progress)
       \/ /\ StaleProgress(cranked.readings)
          /\ cranked.before.attempts + 1 <= max_attempts

\* C18 -- With no trusted hash and no local tip, a CatchUp crank that passes
\* the idleness guard yields CommitGenesis exactly when the activation point
\* is Genesis(ts) and now <= ts; in every other case it emits Shutdown with
\* the reason "post-genesis; cannot proceed without trusted hash provided".
C18_GenesisOrShutdown ==
    (/\ PassedIdlenessGuard
     /\ is_none(cranked.before.trusted_hash)
     /\ is_none(cranked.readings.highest_block))
        => LET point == cranked.before.activation_point
               pre_genesis == /\ point.kind = "Genesis"
                              /\ cranked.readings.now_genesis <= point.timestamp
               reason == "post-genesis; cannot proceed without trusted hash provided"
           IN /\ cranked.instruction.kind = "CommitGenesis" <=> pre_genesis
              /\ ~pre_genesis
                     => /\ cranked.instruction.kind = "Shutdown"
                        /\ cranked.instruction.msg = reason
                        /\ cranked.effects = <<ShutdownEvent(reason)>>

\* CommitGenesis was returned at the genesis timestamp itself, on a crank that
\* counted a stale attempt.
C18_Witness ==
    /\ PassedIdlenessGuard
    /\ StaleProgress(cranked.readings)
    /\ is_none(cranked.before.trusted_hash)
    /\ is_none(cranked.readings.highest_block)
    /\ cranked.before.activation_point.kind = "Genesis"
    /\ cranked.readings.now_genesis = cranked.before.activation_point.timestamp
    /\ cranked.instruction.kind = "CommitGenesis"

\* C19 -- The crank never panics: in no reachable reactor state and for no
\* sync instruction of the accumulator does a crank abort instead of
\* returning effects.
C19_CrankNeverPanics == ~cranked.panicked

\* The scheduling of a crank handled in CatchUp, by its instruction.
CatchUpScheduling ==
    CrankedIn("CatchUp") =>
        LET kind == cranked.instruction.kind
            committed_ok ==
                \/ kind = "CommitGenesis" /\ cranked.readings.engine.ok
                \/ /\ kind = "CommitUpgrade"
                   /\ cranked.readings.upgrade_config_ok
                   /\ cranked.readings.engine.ok
        IN /\ (kind = "Do" \/ committed_ok)
                  => /\ ScheduledCranks = <<ReactorCrank("set_timeout", 5)>>
                     /\ ShutdownsEmitted = <<>>
           /\ kind \in {"CheckSoon", "CaughtUp"}
                  => /\ cranked.effects = <<ReactorCrank("immediately", 0)>>
           /\ kind = "CheckLater"
                  => cranked.effects =
                         <<ReactorCrank("set_timeout", cranked.instruction.wait)>>
           /\ kind = "Shutdown"
                  => /\ cranked.effects = <<ShutdownEvent(cranked.instruction.msg)>>
                     /\ ScheduledCranks = <<>>

\* Once a Shutdown has been emitted the reactor is not cranked again.
QuietAfterShutdown ==
    ShutdownsEmitted # <<>> => (reactor' = reactor /\ cranked' = cranked)

\* C20 -- Crank scheduling in CatchUp: Do and the successful CommitGenesis and
\* CommitUpgrade schedule the next crank after WAIT_SEC (5 s); CheckSoon and
\* CaughtUp schedule it immediately; CheckLater(s) schedules it after s
\* seconds; Shutdown emits a Shutdown event and schedules no further crank, so
\* that after a Shutdown is emitted the reactor state never changes again.
C20_CatchUpScheduling == []CatchUpScheduling /\ [][QuietAfterShutdown]_vars

\* A crank that found fresh progress scheduled the next one after 2 * WAIT_SEC
\* seconds.
C20_Witness ==
    /\ CrankedIn("CatchUp")
    /\ cranked.instruction.kind = "CheckLater"
    /\ cranked.instruction.wait = 10
    /\ ScheduledCranks = <<ReactorCrank("set_timeout", 10)>>

IsEnqueue(effect) == effect.event = "enqueue_block_for_execution"
IsSetInitialState(call) == call.method = "set_initial_state"

\* The blocks the last crank enqueued for execution and the pre-states it
\* installed into the contract runtime.
Enqueued == SelectSeq(cranked.effects, IsEnqueue)
Installed == SelectSeq(cranked.calls, IsSetInitialState)

\* The last crank followed CommitGenesis and the contract runtime committed.
GenesisCommitted ==
    /\ CrankedIn("CatchUp")
    /\ cranked.instruction.kind = "CommitGenesis"
    /\ cranked.readings.engine.ok

\* C21 -- Genesis bootstrap: when commit_genesis succeeds with post-state
\* hash h, the crank installs ExecutionPreState{next_height = 0,
\* post_state_hash = h, parent_hash = zero, accumulated_seed = zero} into the
\* contract runtime and enqueues for execution one FinalizedBlock with height
\* 0, era 0, the genesis timestamp, empty payload and the system key as
\* proposer, with empty deploy and transfer lists.
C21_GenesisBootstrap ==
    GenesisCommitted =>
        LET h == cranked.readings.engine.post_state_hash
            block == Enqueued[1].data[1]
        IN /\ cranked.calls =
                  <<CallOn("contract_runtime", "commit_genesis", <<>>),
                    CallOn("contract_runtime", "set_initial_state",
                           <<0, h, 0, 0>>)>>
           /\ Len(Enqueued) = 1
           /\ cranked.effects[1] = Enqueued[1]
           /\ block.height = 0
           /\ block.era_id = 0
           /\ block.timestamp = cranked.before.activation_point.timestamp
           /\ block.payload = "default"
           /\ block.proposer = "System"
           /\ Enqueued[1].data[2] = <<>>
           /\ Enqueued[1].data[3] = <<>>

\* Genesis was committed for an activation point later than the default
\* timestamp, with the second of the post-state hashes.
C21_Witness ==
    /\ GenesisCommitted
    /\ cranked.before.activation_point.timestamp > 0
    /\ cranked.readings.engine.post_state_hash = 172
    /\ Len(Installed) = 1
    /\ Len(Enqueued) = 1

\* C22 -- KeepUp and Validate promotion and demotion: a KeepUp crank whose
\* sync instruction is CaughtUp sets the state to Validate if and only if
\* consensus reports an active validator, and otherwise the state stays
\* KeepUp; a Validate crank sets the state to KeepUp if and only if consensus
\* reports not an active validator, and otherwise the state stays Validate.
C22_PromotionDemotion ==
    /\ (CrankedIn("KeepUp") /\ cranked.readings.sync_instruction.kind = "CaughtUp")
           => reactor.state =
                  IF cranked.readings.is_active_validator
                  THEN "Validate" ELSE "KeepUp"
    /\ CrankedIn("Validate")
           => reactor.state =
                  IF cranked.readings.is_active_validator
                  THEN "Validate" ELSE "KeepUp"

\* A validator that was promoted on an earlier crank has been demoted to
\* KeepUp.
C22_Witness ==
    /\ CrankedIn("Validate")
    /\ ~cranked.readings.is_active_validator
    /\ reactor.state = "KeepUp"

\* C23 -- In KeepUp, when the accumulator returns BlockSync{hash,
\* fetch_execution_state}, the crank registers the hash with the block
\* synchronizer with the flag forwarded unchanged and the fan-out from the
\* chainspec, stays in KeepUp, and schedules another crank.
C23_KeepUpBlockSync ==
    (CrankedIn("KeepUp") /\ cranked.readings.sync_instruction.kind = "BlockSync")
        => LET sync == cranked.readings.sync_instruction
           IN /\ cranked.calls =
                     <<CallOn("block_synchronizer", "register_block_by_hash",
                              <<sync.block_hash,
                                sync.should_fetch_execution_state,
                                sync_leap_simultaneous_peer_requests>>)>>
              /\ reactor.state = "KeepUp"
              /\ ScheduledCranks # <<>>

\* C24 -- Commit-genesis and commit-upgrade are one-shot: over any run of the
\* reactor, contract-runtime commit_genesis is invoked at most once, and
\* commit_upgrade is invoked at most once for a given previous block header,
\* even when the local tip has not changed by the time of the next crank.
C24_CommitsOneShot == ~commits.repeated

\* C25 -- During CatchUp, every registration of a BlockSync hash with the
\* block synchronizer carries fetch_execution_state = true, whatever flag
\* the accumulator's instruction carried, and is followed by an immediately
\* scheduled crank (CheckSoon).
C25_CatchUpFetchesExecutionState ==
    (CrankedIn("CatchUp") /\ cranked.readings.sync_instruction.kind = "BlockSync")
        => /\ cranked.calls =
                  <<CallOn("block_synchronizer", "register_block_by_hash",
                           <<cranked.readings.sync_instruction.block_hash,
                             TRUE,
                             sync_leap_simultaneous_peer_requests>>)>>
           /\ cranked.instruction.kind = "CheckSoon"
           /\ cranked.effects = <<ReactorCrank("immediately", 0)>>

\* The last crank was handled in CatchUp, chose a starting point and was
\* given the instruction of this kind by the accumulator.
AccumulatorAnswered(kind) ==
    /\ CrankedIn("CatchUp")
    /\ cranked.starting_with # NoStartingPoint
    /\ cranked.readings.sync_instruction.kind = kind

\* The local tip read by the last crank ends an era at an upgrade: its era_id
\* equals its next_block_era_id.
TipAtUpgrade ==
    /\ is_some(cranked.readings.highest_block)
    /\ unwrap(cranked.readings.highest_block).era_id
           = unwrap(cranked.readings.highest_block).next_block_era_id

UpgradeReturned ==
    /\ cranked.instruction.kind = "CommitUpgrade"
    /\ cranked.instruction.header = cranked.readings.highest_block

AdvancedToKeepUp ==
    /\ cranked.instruction.kind = "CaughtUp"
    /\ reactor.state = "KeepUp"
    /\ cranked.effects = <<ReactorCrank("immediately", 0)>>

C27_StartingPointWithTrustedHash ==
    (PassedIdlenessGuard /\ is_some(cranked.before.trusted_hash)) =>
        LET trusted_hash == unwrap(cranked.before.trusted_hash)
            read == cranked.readings.read_block
            tip == cranked.readings.highest_block
            from_hash == [kind |-> "Hash", block_hash |-> trusted_hash]
        IN IF ~read.ok
           THEN /\ cranked.instruction.kind = "Shutdown"
                /\ Len(ShutdownsEmitted) = 1
                /\ cranked.effects = ShutdownsEmitted
           ELSE IF is_none(read.block) THEN cranked.starting_with = from_hash
           ELSE IF is_none(tip) THEN cranked.starting_with = from_hash
           ELSE IF unwrap(read.block).height > unwrap(tip).height
           THEN cranked.starting_with = from_hash
           ELSE cranked.starting_with =
                    [kind |-> "Block", block_hash |-> unwrap(tip).hash]

\* The trusted block and the local tip have the same height, above 0, and
\* the crank started with the local tip.
C27_Witness ==
    /\ PassedIdlenessGuard
    /\ is_some(cranked.before.trusted_hash)
    /\ is_some(cranked.readings.read_block.block)
    /\ is_some(cranked.readings.highest_block)
    /\ unwrap(cranked.readings.read_block.block).height
           = unwrap(cranked.readings.highest_block).height
    /\ unwrap(cranked.readings.highest_block).height > 0
    /\ cranked.starting_with.kind = "Block"

IsAttemptLeap(effect) == effect.event = "AttemptLeap"

\* C28 -- On a Leap instruction during CatchUp, the crank requests a random
\* peer sample of size sync_leap_simultaneous_peer_requests, emits exactly one
\* AttemptLeap event to the sync leaper whose trusted_hash is the hash of the
\* chosen starting point and whose peers are that sample, leaves the reactor
\* state CatchUp, and schedules the next crank after WAIT_SEC.
C28_LeapDispatch ==
    AccumulatorAnswered("Leap") =>
        /\ cranked.calls =
               <<CallOn("small_network", "peers_random_vec",
                        <<sync_leap_simultaneous_peer_requests>>)>>
        /\ SelectSeq(cranked.effects, IsAttemptLeap) =
               <<Effect("AttemptLeap", "immediately", 0,
                        <<cranked.starting_with.block_hash,
                          cranked.readings.peers_to_ask>>)>>
        /\ reactor.state = "CatchUp"
        /\ ScheduledCranks = <<ReactorCrank("set_timeout", 5)>>
        /\ Len(cranked.effects) = 2

\* A leap from the local tip with a full sample of peers.
C28_Witness ==
    /\ AccumulatorAnswered("Leap")
    /\ cranked.starting_with.kind = "Block"
    /\ Len(cranked.readings.peers_to_ask) = sync_leap_simultaneous_peer_requests
    /\ SelectSeq(cranked.effects, IsAttemptLeap) # <<>>

\* The message of the commit that failed on the last crank, "" if none did:
\* commit_genesis refused by the contract runtime, the upgrade configuration
\* not built, or commit_upgrade refused by the contract runtime.
CommitFailure ==
    IF ~CrankedIn("CatchUp") THEN ""
    ELSE IF cranked.instruction.kind = "CommitGenesis"
    THEN IF cranked.readings.engine.ok THEN "" ELSE "failed to commit genesis"
    ELSE IF cranked.instruction.kind = "CommitUpgrade"
    THEN IF ~cranked.readings.upgrade_config_ok THEN "upgrade config error"
         ELSE IF ~cranked.readings.engine.ok THEN "failed to upgrade protocol"
         ELSE ""
    ELSE ""

\* C29 -- Commit failure: when contract-runtime commit_genesis or
\* commit_upgrade (or building the upgrade config) fails, no
\* ExecutionPreState is installed, no FinalizedBlock is enqueued, and the
\* crank emits only Shutdown(msg) with the error message and schedules no
\* further crank.
C29_CommitFailure ==
    CommitFailure # "" =>
        /\ Installed = <<>>
        /\ Enqueued = <<>>
        /\ cranked.effects =
               <<Effect("Shutdown", "immediately", 0, <<CommitFailure>>)>>
        /\ ScheduledCranks = <<>>

\* The upgrade configuration was built and the contract runtime refused the
\* upgrade.
C29_Witness ==
    /\ CommitFailure = "failed to upgrade protocol"
    /\ Len(cranked.calls) = 2
    /\ ShutdownsEmitted # <<>>

\* The last crank followed CommitUpgrade, the upgrade configuration was built
\* and the contract runtime committed.
UpgradeCommitted ==
    /\ CrankedIn("CatchUp")
    /\ cranked.instruction.kind = "CommitUpgrade"
    /\ cranked.readings.upgrade_config_ok
    /\ cranked.readings.engine.ok

\* C30 -- Commit upgrade success: given previous header p and post-state
\* hash h, the crank installs ExecutionPreState{next_height = p.height + 1,
\* post_state_hash = h, parent_hash = p.hash, accumulated_seed =
\* p.accumulated_seed} and enqueues one FinalizedBlock with height
\* p.height + 1, era p.next_block_era_id, timestamp p.timestamp, empty
\* payload and the system key as proposer.
C30_UpgradeBootstrap ==
    UpgradeCommitted =>
        LET p == unwrap(cranked.instruction.header)
            h == cranked.readings.engine.post_state_hash
            block == Enqueued[1].data[1]
        IN /\ Installed =
                  <<CallOn("contract_runtime", "set_initial_state",
                           <<p.height + 1, h, p.hash, p.accumulated_seed>>)>>
           /\ cranked.calls[Len(cranked.calls)] = Installed[1]
           /\ Len(Enqueued) = 1
           /\ block.height = p.height + 1
           /\ block.era_id = p.next_block_era_id
           /\ block.timestamp = p.timestamp
           /\ block.payload = "default"
           /\ block.proposer = "System"

\* An upgrade was committed on a tip above height 0, in an era after era 0.
C30_Witness ==
    /\ UpgradeCommitted
    /\ unwrap(cranked.instruction.header).height > 0
    /\ unwrap(cranked.instruction.header).next_block_era_id > 0
    /\ Len(Installed) = 1
    /\ Len(Enqueued) = 1

\* The place in the initialization order of the subsystem the last crank
\* initialized; 0 if it initialized none.
RECURSIVE InitializedAt(_)
InitializedAt(i) ==
    IF i > Len(Components) THEN 0
    ELSE IF /\ CrankedIn("Initialize")
            /\ \E k \in DOMAIN cranked.effects :
                   /\ cranked.effects[k].event = "Initialize"
                   /\ cranked.effects[k].data = <<Components[i]>>
    THEN i
    ELSE InitializedAt(i + 1)

Initializing == InitializedAt(1)

\* The last crank initialized one subsystem, and no subsystem earlier in the
\* order was pending.
InitializedInOrder ==
    Initializing # 0 =>
        /\ Len(cranked.effects) = 1
        /\ \A j \in 1..(Initializing - 1) :
               Components[j] \notin cranked.readings.pending

\* From one crank to the next the initialization does not go back in the
\* order.
OrderKept ==
    (Initializing # 0 /\ Initializing' # 0) => Initializing' >= Initializing

\* C31 -- Initialization order: during Initialize the subsystems are
\* initialized strictly in the order diagnostics port, upgrade watcher,
\* network, event stream server, REST server, RPC server; a crank never
\* starts initializing a subsystem while an earlier one in the list still has
\* initialization effects pending.
C31_InitializationOrder == []InitializedInOrder /\ [][OrderKept]_vars

\* The REST server was initialized while the RPC server was still pending,
\* after the four subsystems before it.
C31_Witness ==
    /\ Initializing = 5
    /\ cranked.readings.pending = {"rest_server", "rpc_server"}

\* The last crank was handled in CatchUp and the block synchronizer reported
\* progress no older than idle_tolerances.
FreshProgress ==
    /\ CrankedIn("CatchUp")
    /\ is_some(cranked.readings.last_progress)
    /\ ~StaleProgress(cranked.readings)

\* C32 -- Fresh block-synchronizer progress: a CatchUp crank that finds
\* progress no older than idle_tolerances sets the attempts to 0 and
\* schedules the next crank after 2 * WAIT_SEC seconds, and does nothing
\* else: the accumulator is not queried, no block is registered, no leap is
\* attempted, and the state stays CatchUp.
C32_FreshProgress ==
    FreshProgress =>
        /\ reactor = [cranked.before EXCEPT !.attempts = 0]
        /\ reactor.state = "CatchUp"
        /\ cranked.effects = <<ReactorCrank("set_timeout", 2 * WAIT_SEC)>>
        /\ cranked.calls = <<>>
        /\ cranked.starting_with = NoStartingPoint
        /\ cranked.readings =
               Consulted(cranked.readings, {"last_progress", "now_idle"})

\* Fresh progress was found after a stale attempt had been counted, and the
\* count went back to 0.
C32_Witness ==
    /\ FreshProgress
    /\ cranked.before.attempts > 0
    /\ reactor.attempts = 0
    /\ ScheduledCranks = <<ReactorCrank("set_timeout", 2 * WAIT_SEC)>>

\* A change of the reactor state is one of the five the crank makes, made on
\* the readings that call for it.
AllowedStateChange ==
    reactor'.state # reactor.state =>
        LET from == reactor.state
            to == reactor'.state
            env == cranked'.readings
            sync == env.sync_instruction.kind
        IN \/ /\ from = "Initialize" /\ to = "CatchUp"
              /\ env.pending = {}
           \/ /\ from = "CatchUp" /\ to = "KeepUp"
              /\ cranked'.starting_with # NoStartingPoint
              /\ sync = "CaughtUp"
           \/ /\ from = "KeepUp" /\ to = "CatchUp"
              /\ sync = "Leap"
           \/ /\ from = "KeepUp" /\ to = "Validate"
              /\ sync = "CaughtUp"
              /\ env.is_active_validator
           \/ /\ from = "Validate" /\ to = "KeepUp"
              /\ ~env.is_active_validator

\* C33 -- Allowed reactor state transitions: the only state changes are
\* Initialize to CatchUp (all subsystems initialized), CatchUp to KeepUp
\* (accumulator reports CaughtUp), KeepUp to CatchUp (accumulator reports
\* Leap), KeepUp to Validate (CaughtUp and the node is an active validator)
\* and Validate to KeepUp (no longer an active validator); Initialize is
\* never re-entered and Validate is never entered from CatchUp.
C33_AllowedTransitions == [][AllowedStateChange]_vars

\* The reactor fell back from KeepUp to CatchUp when the accumulator reported
\* Leap.
C33_Witness ==
    /\ CrankedIn("KeepUp")
    /\ reactor.state = "CatchUp"
    /\ cranked.readings.sync_instruction.kind = "Leap"

\* C34 -- At most one crank pending: every crank handled in CatchUp, KeepUp
\* or Validate schedules at most one ReactorCrank, so that with the one crank
\* it consumed there is never more than one ReactorCrank pending and the
\* crank chains never interleave.
C34_AtMostOneCrank ==
    (cranked.handled /\ cranked.before.state \in {"CatchUp", "KeepUp", "Validate"})
        => Len(ScheduledCranks) <= 1

\* A CatchUp crank returned the effects of a Do instruction and, after them,
\* one ReactorCrank.
C34_Witness ==
    /\ CrankedIn("CatchUp")
    /\ cranked.instruction.kind = "Do"
    /\ Len(cranked.effects) = 2
    /\ Len(ScheduledCranks) = 1

\* C35 -- The assertion "should only ever set once" in can_execute never
\* fails: whenever the latch is set, it was unset before, in every call of
\* can_execute and of the register operations that evaluate it.
C35_SetOnlyOnce == last.assert_ok

\* can_execute was called with sufficient weight on an acceptor whose latch an
\* earlier register call had set, and returned true.
C35_Witness ==
    /\ Latched
    /\ ready_count >= 1
    /\ last.op = "can_execute"
    /\ last.ret = Ok(TRUE)
    /\ last.assert_ok

\* The server has left its select for good.
ServerShutDown == server.pc \in {"remove", "done"}

\* While the sender is alive the server stays in its select and accept loop.
AliveWhileSenderAlive == ServerShutDown => shutdown_sender = "dropped"

\* The socket file is removed at most once, and exactly once, successfully or
\* not, by the time the server has returned.
RemovedOnce ==
    /\ server.attempts <= 1
    /\ server.pc = "done" <=> server.attempts = 1
    /\ server.attempts = 1 <=> server.removed \in {"ok", "failed"}

\* A server that has left its select accepts no connection.
AcceptsNoMore ==
    ServerShutDown =>
        /\ server'.next_client_id = server.next_client_id
        /\ \A i \in ClientIds : handlers[i].pc = "none" => handlers'[i].pc = "none"

\* Handler i is waiting for its next line.
Waiting(i) == handlers[i].pc = "parked"

\* C36 -- Diagnostics shutdown: once the sender of the shutdown channel is
\* dropped, the server stops accepting connections, attempts to remove the
\* socket file once and terminates whether or not the removal succeeded, and
\* every connection handler that is waiting for its next line terminates;
\* while the sender is alive the server never terminates.
C36_DiagnosticsShutdown ==
    /\ [](AliveWhileSenderAlive /\ RemovedOnce)
    /\ [][AcceptsNoMore]_vars
    /\ (shutdown_sender = "dropped") ~> (server.pc = "done")
    /\ \A i \in ClientIds :
           (shutdown_sender = "dropped" /\ Waiting(i)) ~> (handlers[i].pc = "done")

\* The server returned although the socket file could not be removed, and
\* two handlers returned on the shutdown.
C36_Witness ==
    /\ server.pc = "done"
    /\ server.removed = "failed"
    /\ \A i \in ClientIds : handlers[i].result = "shutdown"

\* The lines of connection i are processed one at a time in the order
\* written: the line in process_line, and the last one processed, are numbered
\* as the handler counts them.
InOrder(i) ==
    LET h == handlers[i]
        seen == sessions[i]
    IN /\ h.pc = "processing" <=> h.line # NoLine
       /\ h.line # NoLine => h.line.seq = seen.processed + 1
       /\ seen.last_line.seq = seen.processed
       /\ \A k \in DOMAIN streams[i].inbound :
              streams[i].inbound[k].seq =
                  seen.processed + k + (IF h.line # NoLine THEN 1 ELSE 0)

\* After quit was processed the handler has returned, and the goodbye is what
\* it wrote last, unless the session is quiet or the write failed.
QuitEnds(i) ==
    LET h == handlers[i]
    IN sessions[i].last_line.cmd = "quit" =>
           /\ h.pc = "done"
           /\ h.result \in {"quit", "io_error"}
           /\ h.result = "quit" =>
                  sessions[i].reply =
                            IF h.session.quiet THEN <<>>
                            ELSE <<[format |-> h.session.output,
                                    body |-> success("goodbye!")]>>

\* A handler that has returned reads and writes nothing more.
ClosedForGood(i) ==
    handlers[i].pc = "done" =>
        /\ handlers'[i] = handlers[i]
        /\ sessions'[i] = sessions[i]
        /\ streams'[i].inbound = streams[i].inbound

\* The client of connection i has written a quit that is not processed yet.
QuitBuffered(i) ==
    \/ \E k \in DOMAIN streams[i].inbound : streams[i].inbound[k].cmd = "quit"
    \/ handlers[i].line.cmd = "quit"

\* C37 -- Diagnostics session: a handler processes the command lines of its
\* client one at a time in the order received, and on quit it sends the
\* goodbye outcome (unless quiet), processes no later line and closes the
\* connection, so that a client that buffers several commands ending with
\* quit always sees its read reach end-of-stream.
C37_DiagnosticsSession ==
    /\ [](\A i \in ClientIds : InOrder(i) /\ QuitEnds(i))
    /\ [][\A i \in ClientIds : ClosedForGood(i)]_vars
    /\ \A i \in ClientIds : QuitBuffered(i) ~> (handlers[i].pc = "done")

\* A quiet session ended on its second line, quit, with nothing written, and
\* a line written after the quit was left unread.
C37_Witness ==
    \E i \in ClientIds :
        /\ handlers[i].result = "quit"
        /\ sessions[i].processed = 2
        /\ handlers[i].session.quiet
        /\ sessions[i].reply = <<>>
        /\ streams[i].inbound # <<>>

====
